---- MODULE Spec2Model ----
(***************************************************************************)
(* Request / cache / retry layer and agent registry of                     *)
(* CursorAgentMCPServer (src/cursor_agent_mcp_server.py).                  *)
(*                                                                         *)
(* The server runs on one asyncio event loop: the code between two awaits  *)
(* that really suspend (a network round trip, asyncio.sleep) is one atomic *)
(* step.  Each handler invocation is a task; a task is idle, has a request *)
(* in flight, is asleep in a backoff, or is done and holds its result.     *)
(***************************************************************************)
EXTENDS Integers, Sequences, FiniteSets, TLC

VARIABLES
    session,                       \* self.session: None / open / closed
    sessions_created,              \* number of aiohttp.ClientSession objects constructed
    agents,                        \* self.agents: agent_id -> BackgroundAgent
    _models_cache,                 \* self._models_cache
    _repositories_cache,           \* self._repositories_cache
    _branches_cache,               \* self._branches_cache: cache_key -> result
    _models_cache_timestamp,       \* self._models_cache_timestamp
    _repositories_cache_timestamp, \* self._repositories_cache_timestamp
    _branches_cache_timestamp,     \* self._branches_cache_timestamp: cache_key -> time
    now,                           \* time.time()
    calls,                         \* number of handler invocations started so far
    cleared,                       \* history: clear_cache has returned and no cached
                                   \* handler has been called since
    task                           \* the handler invocations

vars == <<session, sessions_created, agents, _models_cache, _repositories_cache,
          _branches_cache, _models_cache_timestamp, _repositories_cache_timestamp,
          _branches_cache_timestamp, now, calls, cleared, task>>

cacheVars == <<_models_cache, _repositories_cache, _branches_cache,
               _models_cache_timestamp, _repositories_cache_timestamp,
               _branches_cache_timestamp>>

-----------------------------------------------------------------------------
(* Bounds of the model *)

NumTasks == 2
MaxRetries == 3
MaxTime == 600
MaxCalls == 2
MaxAgentCalls == 3

(* Program constants *)

max_retries == 3
_cache_duration == 300

Tasks == 1..NumTasks

-----------------------------------------------------------------------------
(* Python values *)

None == [none |-> TRUE]
NoTime == -1
\* None in a field whose other values are strings
Null == "null"

\* d.get(k, default)
Get(d, k, default) == IF k \in DOMAIN d THEN d[k] ELSE default

\* d[k] = v on a dictionary that forgets its other keys
Put_alone(d, k, v) == [x \in {k} |-> v]

\* d[k] = v
Put(d, k, v) == [x \in DOMAIN d \cup {k} |-> IF x = k THEN v ELSE d[x]]

\* datetime.utcnow().isoformat()
utcnow == ToString(now)

-----------------------------------------------------------------------------
(* Strings are sequences of characters, so that the string operations of   *)
(* _extract_repo_info do what str.replace, str.rstrip and str.split do.    *)

HTTPS == <<"h", "t", "t", "p", "s", ":", "/", "/">>
HTTP == <<"h", "t", "t", "p", ":", "/", "/">>
GITHUB == <<"g", "i", "t", "h", "u", "b", ".", "c", "o", "m">>
GITLAB == <<"g", "i", "t", "l", "a", "b", ".", "c", "o", "m">>
SLASH == <<"/">>

IsPrefix(p, s) == Len(p) <= Len(s) /\ SubSeq(s, 1, Len(p)) = p

\* sub in s
Contains(s, sub) ==
    \E i \in 1..(Len(s) - Len(sub) + 1) : SubSeq(s, i, i + Len(sub) - 1) = sub

\* s.replace(old, "")
RECURSIVE Remove(_, _)
Remove(s, old) ==
    IF s = <<>> THEN <<>>
    ELSE IF IsPrefix(old, s) THEN Remove(SubSeq(s, Len(old) + 1, Len(s)), old)
    ELSE <<Head(s)>> \o Remove(Tail(s), old)

\* s.rstrip(c)
RECURSIVE RStrip(_, _)
RStrip(s, c) ==
    IF s # <<>> /\ s[Len(s)] = c THEN RStrip(SubSeq(s, 1, Len(s) - 1), c) ELSE s

\* s.find(c) + 1, for a c that occurs in s
Find(s, c) == CHOOSE i \in 1..Len(s) : s[i] = c /\ \A j \in 1..(i - 1) : s[j] # c

ValueError(m) == [exc |-> "ValueError", msg |-> m]

\* _extract_repo_info: [ok |-> TRUE, owner, repo] or [ok |-> FALSE, error]
_extract_repo_info(repository_url) ==
    LET parts == RStrip(Remove(Remove(repository_url, HTTPS \o GITHUB \o SLASH),
                               HTTP \o GITHUB \o SLASH), "/")
    IN  IF Contains(repository_url, GITHUB) /\ Contains(parts, SLASH)
        THEN [ok |-> TRUE,
              owner |-> SubSeq(parts, 1, Find(parts, "/") - 1),
              repo |-> SubSeq(parts, Find(parts, "/") + 1, Len(parts))]
        ELSE [ok |-> FALSE, error |-> ValueError("Invalid repository URL")]

\* a cache key that leaves the repository out
CacheKey_owner(info) == info.owner

\* cache_key = f"{owner}/{repo}"
CacheKey(info) == info.owner \o SLASH \o info.repo

-----------------------------------------------------------------------------
(* What the transport can answer to one request: an HTTP response (status, *)
(* content type, decoded body) or an exception raised by aiohttp.          *)

Http(status, ctype, body) ==
    [kind |-> "http", status |-> status, ctype |-> ctype, body |-> body]
Fault(exc) == [kind |-> "fault", exc |-> exc]

\* the subclasses of aiohttp.ClientError among the exceptions of the model
IsClientError(exc) ==
    exc \in {"ClientConnectionError", "ContentTypeError", "ConnectionTimeoutError"}

\* the exception, if any, that ends `async with session.request(...)` followed by
\* `await response.json()`: response.json() raises ContentTypeError when the
\* body is not application/json
RequestFault(r) ==
    IF r.kind = "fault" THEN r.exc
    ELSE IF r.ctype # "json" THEN "ContentTypeError"
    ELSE "none"

Raised(exc) == [exc |-> exc, msg |-> ""]
AuthenticationFailed ==
    [exc |-> "Exception", msg |-> "Authentication failed. Check your Cursor API key."]
ApiRequestFailed(status) ==
    [exc |-> "Exception", msg |-> "API request failed", status |-> status]
NetworkError(cause) ==
    [exc |-> "Exception", msg |-> "Network error after attempts", cause |-> cause]
FailedToComplete ==
    [exc |-> "Exception", msg |-> "Failed to complete request after attempts"]

\* what `self.session.request(...)` / `self.session.get(...)` raises before
\* anything is sent: RuntimeError("Session is closed") on a closed session,
\* AttributeError on None
SessionFault(s) ==
    IF s = "closed" THEN Fault("RuntimeError")
    ELSE IF s = "None" THEN Fault("AttributeError")
    ELSE Fault("none")

-----------------------------------------------------------------------------
(* _make_api_request: one pass through the body of its retry loop, for the *)
(* answer r to attempt number `attempt` (counted from 0).                  *)

\* RequestAttempt with a backoff that grows linearly: wait_time = 2 * attempt
RequestAttempt_linear(attempt, r) ==
    LET fault == RequestFault(r)
    IN  IF fault # "none"
        THEN IF IsClientError(fault)
             THEN IF attempt = max_retries - 1
                  THEN [act |-> "raise", error |-> NetworkError(fault)]
                  ELSE [act |-> "sleep", wait |-> 2 * attempt]
             ELSE [act |-> "raise", error |-> Raised(fault)]
        ELSE IF r.status = 200 \/ r.status = 201
             THEN [act |-> "return", body |-> r.body]
        ELSE IF r.status = 401
             THEN [act |-> "raise", error |-> AuthenticationFailed]
        ELSE IF r.status = 429
             THEN [act |-> "sleep", wait |-> 2 * attempt]
        ELSE [act |-> "raise", error |-> ApiRequestFailed(r.status)]

RequestAttempt(attempt, r) ==
    LET fault == RequestFault(r)
    IN  IF fault # "none"
        THEN IF IsClientError(fault)
             THEN IF attempt = max_retries - 1
                  THEN [act |-> "raise", error |-> NetworkError(fault)]
                  ELSE [act |-> "sleep", wait |-> 2 ^ attempt]
             ELSE [act |-> "raise", error |-> Raised(fault)]
        ELSE IF r.status = 200 \/ r.status = 201
             THEN [act |-> "return", body |-> r.body]
        ELSE IF r.status = 401
             THEN [act |-> "raise", error |-> AuthenticationFailed]
        ELSE IF r.status = 429
             THEN [act |-> "sleep", wait |-> 2 ^ attempt]
        ELSE [act |-> "raise", error |-> ApiRequestFailed(r.status)]

\* `for attempt in range(self.config.max_retries)`: is there an attempt number n
LoopContinues(n) == n < max_retries

Returned(body) == [ok |-> TRUE, body |-> body]
Failed(error) == [ok |-> FALSE, error |-> error]

\* RequestAttempt for a configuration whose max_retries is retries
AttemptWith(retries, attempt, r) ==
    LET fault == RequestFault(r)
    IN  IF fault # "none"
        THEN IF IsClientError(fault)
             THEN IF attempt = retries - 1
                  THEN [act |-> "raise", error |-> NetworkError(fault)]
                  ELSE [act |-> "sleep", wait |-> 2 ^ attempt]
             ELSE [act |-> "raise", error |-> Raised(fault)]
        ELSE IF r.status = 200 \/ r.status = 201
             THEN [act |-> "return", body |-> r.body]
        ELSE IF r.status = 401
             THEN [act |-> "raise", error |-> AuthenticationFailed]
        ELSE IF r.status = 429
             THEN [act |-> "sleep", wait |-> 2 ^ attempt]
        ELSE [act |-> "raise", error |-> ApiRequestFailed(r.status)]

\* range(retries) with its last number twice
InRange_inclusive(retries, n) == n <= retries

\* n in range(retries)
InRange(retries, n) == n < retries

\* the loop of _make_api_request from attempt number `attempt` on, for a
\* configuration whose max_retries is retries, the transport answering the
\* attempts with rs in turn: the answers used, the sleeps and the outcome
RECURSIVE RequestLoop(_, _, _, _, _)
RequestLoop(retries, attempt, rs, hist, sleeps) ==
    IF ~InRange(retries, attempt)
    THEN [hist |-> hist, sleeps |-> sleeps, outcome |-> Failed(FailedToComplete)]
    ELSE LET r == Head(rs)
             a == AttemptWith(retries, attempt, r)
             h == Append(hist, r)
         IN  IF a.act = "return"
             THEN [hist |-> h, sleeps |-> sleeps, outcome |-> Returned(a.body)]
             ELSE IF a.act = "raise"
             THEN [hist |-> h, sleeps |-> sleeps, outcome |-> Failed(a.error)]
             ELSE RequestLoop(retries, attempt + 1, Tail(rs), h,
                              Append(sleeps, a.wait))

-----------------------------------------------------------------------------
(* Result envelopes of the cached handlers *)

DefaultModels == <<"claude-4-sonnet-thinking", "o3", "claude-4-opus-thinking">>
\* the fallback list with one name missing
CommonBranches_two == <<"main", "master">>
CommonBranches == <<"main", "master", "develop">>
CommonBranchesPrivate == <<"main", "master", "develop", "feature/new-feature">>

ModelsResult(models) ==
    [success |-> TRUE, models |-> models, total_models |-> Len(models)]
\* the fallback of _list_available_models with one name missing
ModelsFallback_two(e) ==
    [success |-> FALSE, error |-> e, message |-> "Failed to get available models",
     models |-> <<"claude-4-sonnet-thinking", "o3">>]
ModelsFallback(e) ==
    [success |-> FALSE, error |-> e, message |-> "Failed to get available models",
     models |-> DefaultModels]

RepositoriesResult(repositories) ==
    [success |-> TRUE, repositories |-> repositories,
     total_repositories |-> Len(repositories)]
RepositoriesFallback(e) ==
    [success |-> FALSE, error |-> e,
     message |-> "Failed to get accessible repositories", repositories |-> <<>>]

BranchesResult(repository_url, info, branches) ==
    [success |-> TRUE, repository |-> repository_url, owner |-> info.owner,
     repo |-> info.repo, branches |-> branches, total_branches |-> Len(branches)]
BranchesFallback(repository_url, e, branches) ==
    [success |-> FALSE, error |-> e, repository |-> repository_url,
     branches |-> branches, message |-> "Using common branch names"]

\* _is_cache_valid with the comparison turned round
_is_cache_valid_inverted(cache_timestamp) ==
    IF cache_timestamp = NoTime THEN FALSE
    ELSE (now - cache_timestamp) > _cache_duration

\* _is_cache_valid with `<=` in place of `<`
_is_cache_valid_inclusive(cache_timestamp) ==
    IF cache_timestamp = NoTime THEN FALSE
    ELSE (now - cache_timestamp) <= _cache_duration

\* _is_cache_valid
_is_cache_valid(cache_timestamp) ==
    IF cache_timestamp = NoTime THEN FALSE
    ELSE (now - cache_timestamp) < _cache_duration

\* self._branches_cache_timestamp.get(cache_key)
BranchesTimestamp(cache_key) ==
    IF cache_key \in DOMAIN _branches_cache_timestamp
    THEN _branches_cache_timestamp[cache_key] ELSE NoTime

-----------------------------------------------------------------------------
(* Tasks *)

IdleTask ==
    [pc |-> "idle", op |-> "none", force |-> FALSE, url |-> <<>>, args |-> <<>>,
     attempt |-> 0, hist |-> <<>>, sleeps |-> <<>>, outcome |-> None,
     via |-> "none", result |-> None]

\* the handler returns `result` through the return statement `via`
Finish(t, tk, via, result) ==
    task' = [task EXCEPT ![t] = [tk EXCEPT !.pc = "done", !.via = via,
                                           !.result = result]]

-----------------------------------------------------------------------------
(* Transport session *)

\* _ensure_session without its `if self.session is None`
_ensure_session_always ==
    session' = "open" /\ sessions_created' = sessions_created + 1

\* _ensure_session: it has no suspension point, so it is one step
_ensure_session ==
    IF session = "None"
    THEN session' = "open" /\ sessions_created' = sessions_created + 1
    ELSE UNCHANGED <<session, sessions_created>>

initialize ==
    /\ _ensure_session
    /\ UNCHANGED <<agents, cacheVars, now, calls, cleared, task>>

\* cleanup without its `if self.session`
cleanup_unguarded ==
    /\ session' = "closed"
    /\ UNCHANGED <<sessions_created, agents, cacheVars, now, calls, cleared, task>>

\* cleanup: `if self.session: await self.session.close()`; self.session keeps
\* referring to the closed session, and closing a closed session does nothing
cleanup ==
    /\ session' = IF session # "None" THEN "closed" ELSE session
    /\ UNCHANGED <<sessions_created, agents, cacheVars, now, calls, cleared, task>>

-----------------------------------------------------------------------------
(* Agent registry: _create_background_agent, _get_agent_status,            *)
(* _add_followup_instruction, _stop_background_agent,                      *)
(* _list_background_agents, _get_api_usage                                 *)

BackgroundAgent(agent_id, status, repository_url, prompt, branch, model, created_at) ==
    [agent_id |-> agent_id, status |-> status, repository_url |-> repository_url,
     prompt |-> prompt, branch |-> branch, model |-> model,
     created_at |-> created_at, updated_at |-> Null, progress |-> Null]

\* the envelope of the `except Exception` blocks of the agent handlers; the
\* text of the message differs from handler to handler
AgentFailure(e) == [success |-> FALSE, error |-> e, message |-> "Failed"]

\* _create_background_agent after `response = await self._make_api_request(...)`
CreateOutcome(t, tk, out) ==
    IF out.ok
    THEN LET response == out.body
             agent == BackgroundAgent(
                          Get(response, "id", "agent-" \o ToString(now)),
                          Get(response, "status", "CREATING"),
                          tk.args.repository_url,
                          tk.args.prompt,
                          Get(tk.args, "branch", "main"),
                          Get(tk.args, "model", "claude-3-5-sonnet"),
                          Get(response, "createdAt", utcnow))
         IN  /\ agents' = Put(agents, agent.agent_id, agent)
             /\ Finish(t, tk, "returned",
                       [success |-> TRUE, agent_id |-> agent.agent_id,
                        status |-> agent.status,
                        repository_url |-> agent.repository_url,
                        branch |-> agent.branch, model |-> agent.model,
                        created_at |-> agent.created_at])
    ELSE /\ UNCHANGED agents
         /\ Finish(t, tk, "failed", AgentFailure(out.error))

\* the merge of _get_agent_status without its `if agent_id in self.agents`
StatusMerge_upsert(agent_id, response) ==
    Put(agents, agent_id,
        [Get(agents, agent_id,
             BackgroundAgent(agent_id, "unknown", "", "", Null, Null, Null))
         EXCEPT !.status = Get(response, "status", @),
                !.progress = Get(response, "progress", @),
                !.updated_at = utcnow])

\* the merge of _get_agent_status with the defaults of its result envelope
StatusMerge_unknown(agent_id, response) ==
    IF agent_id \in DOMAIN agents
    THEN [agents EXCEPT ![agent_id] =
              [@ EXCEPT !.status = Get(response, "status", "unknown"),
                        !.progress = Get(response, "progress", "{}"),
                        !.updated_at = utcnow]]
    ELSE agents

\* `if agent_id in self.agents:` status, progress and updated_at of the record
StatusMerge(agent_id, response) ==
    IF agent_id \in DOMAIN agents
    THEN [agents EXCEPT ![agent_id] =
              [@ EXCEPT !.status = Get(response, "status", @),
                        !.progress = Get(response, "progress", @),
                        !.updated_at = utcnow]]
    ELSE agents

\* _get_agent_status after `response = await self._make_api_request(...)`
StatusOutcome(t, tk, out) ==
    IF out.ok
    THEN LET response == out.body
             agent_id == tk.args.agent_id
         IN  /\ agents' = StatusMerge(agent_id, response)
             /\ Finish(t, tk, "returned",
                       [success |-> TRUE, agent_id |-> agent_id,
                        status |-> Get(response, "status", "unknown"),
                        progress |-> Get(response, "progress", "{}")])
    ELSE /\ UNCHANGED agents
         /\ Finish(t, tk, "failed", AgentFailure(out.error))

\* _add_followup_instruction after `response = await self._make_api_request(...)`
FollowupOutcome(t, tk, out) ==
    /\ UNCHANGED agents
    /\ IF out.ok
       THEN Finish(t, tk, "returned",
                   [success |-> TRUE, agent_id |-> tk.args.agent_id,
                    instruction_added |-> tk.args.instruction,
                    status |-> Get(out.body, "status", "updated")])
       ELSE Finish(t, tk, "failed", AgentFailure(out.error))

\* _stop_background_agent deleting the record it stops
StopMerge_delete(agent_id) ==
    [a \in DOMAIN agents \ {agent_id} |-> agents[a]]

\* `if agent_id in self.agents:` of _stop_background_agent
StopMerge(agent_id) ==
    IF agent_id \in DOMAIN agents
    THEN [agents EXCEPT ![agent_id] =
              [@ EXCEPT !.status = "stopped", !.updated_at = utcnow]]
    ELSE agents

\* _stop_background_agent marking the record before it looks at the outcome
StopOutcome_eager(t, tk, out) ==
    /\ agents' = StopMerge(tk.args.agent_id)
    /\ IF out.ok
       THEN Finish(t, tk, "returned",
                   [success |-> TRUE, agent_id |-> tk.args.agent_id,
                    status |-> "stopped"])
       ELSE Finish(t, tk, "failed", AgentFailure(out.error))

\* _stop_background_agent after `response = await self._make_api_request(...)`
StopOutcome(t, tk, out) ==
    IF out.ok
    THEN /\ agents' = StopMerge(tk.args.agent_id)
         /\ Finish(t, tk, "returned",
                   [success |-> TRUE, agent_id |-> tk.args.agent_id,
                    status |-> "stopped"])
    ELSE /\ UNCHANGED agents
         /\ Finish(t, tk, "failed", AgentFailure(out.error))

\* the query string of _list_background_agents: limit and cursor, when truthy;
\* status_filter and repository_filter go into `params`, which is never used
ListQuery(args) ==
    (IF Get(args, "limit", 0) # 0 THEN <<<<"limit", args.limit>>>> ELSE <<>>)
    \o (IF Get(args, "cursor", "") # "" THEN <<<<"cursor", args.cursor>>>> ELSE <<>>)

\* the body of `for agent_data in agents:` on the registry reg
ListMergeOne(reg, agent_data) ==
    LET agent_id == Get(agent_data, "agent_id", Null)
    IN  IF agent_id \in {Null, ""} THEN reg
        ELSE IF agent_id \in DOMAIN reg
        THEN [reg EXCEPT ![agent_id] =
                  [@ EXCEPT !.status = Get(agent_data, "status", @),
                            !.updated_at = utcnow]]
        ELSE Put(reg, agent_id,
                 BackgroundAgent(agent_id,
                                 Get(agent_data, "status", "unknown"),
                                 Get(agent_data, "repository_url", ""),
                                 Get(agent_data, "prompt", ""),
                                 Get(agent_data, "branch", Null),
                                 Get(agent_data, "model", Null),
                                 Get(agent_data, "created_at", Null)))

\* `for agent_data in agents:`
RECURSIVE ListMerge(_, _)
ListMerge(reg, listed) ==
    IF listed = <<>> THEN reg
    ELSE ListMerge(ListMergeOne(reg, Head(listed)), Tail(listed))

\* _list_background_agents after `response = await self._make_api_request(...)`
ListOutcome(t, tk, out) ==
    IF out.ok
    THEN LET listed == Get(out.body, "agents", <<>>)
         IN  /\ agents' = ListMerge(agents, listed)
             /\ Finish(t, tk, "returned",
                       [success |-> TRUE, total_agents |-> Len(listed),
                        agents |-> listed,
                        filters_applied |->
                            [status |-> Get(tk.args, "status_filter", Null),
                             repository |-> Get(tk.args, "repository_filter", Null)]])
    ELSE /\ UNCHANGED agents
         /\ Finish(t, tk, "failed", AgentFailure(out.error))

\* LocalUsage counting the status without regard to case
LocalUsage_anycase ==
    [active_agents |->
         Cardinality({a \in DOMAIN agents : agents[a].status \in {"running", "RUNNING"}}),
     total_agents_created |-> Cardinality(DOMAIN agents)]

\* the `usage` entry of the failure envelope of _get_api_usage
LocalUsage ==
    [active_agents |->
         Cardinality({a \in DOMAIN agents : agents[a].status = "running"}),
     total_agents_created |-> Cardinality(DOMAIN agents)]

\* _get_api_usage after `response = await self._make_api_request(...)`
UsageOutcome(t, tk, out) ==
    /\ UNCHANGED agents
    /\ IF out.ok
       THEN Finish(t, tk, "returned",
                   [success |-> TRUE, usage |-> Get(out.body, "usage", "{}"),
                    limits |-> Get(out.body, "limits", "{}")])
       ELSE Finish(t, tk, "failed",
                   [success |-> FALSE, error |-> out.error,
                    message |-> "Failed to get API usage information",
                    usage |-> LocalUsage])

-----------------------------------------------------------------------------
(* _list_available_models and _list_repositories *)

\* the except block without its `if self._models_cache` branch
FailureResult_default(cache, fallback) == <<"default", fallback>>

\* `if self._models_cache: return self._models_cache`, else the hardcoded
\* fallback: <<return statement taken, result>>
FailureResult(cache, fallback) ==
    IF cache # None THEN <<"stale", cache>> ELSE <<"default", fallback>>

\* the handler's code after _make_api_request has returned or raised
HandleOutcome(t, tk, out) ==
    LET tk2 == [tk EXCEPT !.outcome = out]
    IN  IF tk.op = "create" THEN CreateOutcome(t, tk2, out) /\ UNCHANGED cacheVars
        ELSE IF tk.op = "status" THEN StatusOutcome(t, tk2, out) /\ UNCHANGED cacheVars
        ELSE IF tk.op = "followup"
        THEN FollowupOutcome(t, tk2, out) /\ UNCHANGED cacheVars
        ELSE IF tk.op = "stop" THEN StopOutcome(t, tk2, out) /\ UNCHANGED cacheVars
        ELSE IF tk.op = "list" THEN ListOutcome(t, tk2, out) /\ UNCHANGED cacheVars
        ELSE IF tk.op = "usage" THEN UsageOutcome(t, tk2, out) /\ UNCHANGED cacheVars
        ELSE UNCHANGED agents /\
        IF tk.op = "models"
        THEN IF out.ok
             THEN /\ _models_cache' = ModelsResult(out.body)
                  /\ _models_cache_timestamp' = now
                  /\ UNCHANGED <<_repositories_cache, _repositories_cache_timestamp,
                                 _branches_cache, _branches_cache_timestamp>>
                  /\ Finish(t, tk2, "refreshed", ModelsResult(out.body))
             ELSE LET f == FailureResult(_models_cache, ModelsFallback(out.error))
                  IN  /\ UNCHANGED cacheVars
                      /\ Finish(t, tk2, f[1], f[2])
        ELSE IF out.ok
             THEN /\ _repositories_cache' = RepositoriesResult(out.body)
                  /\ _repositories_cache_timestamp' = now
                  /\ UNCHANGED <<_models_cache, _models_cache_timestamp,
                                 _branches_cache, _branches_cache_timestamp>>
                  /\ Finish(t, tk2, "refreshed", RepositoriesResult(out.body))
             ELSE LET f == FailureResult(_repositories_cache,
                                         RepositoriesFallback(out.error))
                  IN  /\ UNCHANGED cacheVars
                      /\ Finish(t, tk2, f[1], f[2])

\* a request that marks the record of a status call as being checked when it
\* is sent
StartRequest_marking(t, tk) ==
    IF session' = "open"
    THEN /\ task' = [task EXCEPT ![t] = [tk EXCEPT !.pc = "inflight"]]
         /\ agents' = IF tk.op = "status" /\ tk.args.agent_id \in DOMAIN agents
                       THEN [agents EXCEPT ![tk.args.agent_id].status = "checking"]
                       ELSE agents
         /\ UNCHANGED cacheVars
    ELSE LET r == SessionFault(session')
         IN  HandleOutcome(t, [tk EXCEPT !.hist = Append(@, r)],
                           Failed(RequestAttempt(tk.attempt, r).error))

\* entering `async with self.session.request(...)`: on a closed session the
\* attempt ends at once, with the RuntimeError, which is no aiohttp.ClientError
StartRequest(t, tk) ==
    IF session' = "open"
    THEN /\ task' = [task EXCEPT ![t] = [tk EXCEPT !.pc = "inflight"]]
         /\ UNCHANGED <<agents, cacheVars>>
    ELSE LET r == SessionFault(session')
         IN  HandleOutcome(t, [tk EXCEPT !.hist = Append(@, r)],
                           Failed(RequestAttempt(tk.attempt, r).error))

\* a cached handler that issues no request while another call refreshes the
\* same slot, and returns what the slot holds
CallCached_joined(t, op, force) ==
    /\ task[t].pc = "idle"
    /\ calls < MaxCalls
    /\ calls' = calls + 1
    /\ cleared' = FALSE
    /\ UNCHANGED now
    /\ LET tk == [IdleTask EXCEPT !.op = op, !.force = force]
           cache == IF op = "models" THEN _models_cache ELSE _repositories_cache
           ts == IF op = "models" THEN _models_cache_timestamp
                 ELSE _repositories_cache_timestamp
       IN  IF \/ ~force /\ _is_cache_valid(ts) /\ cache # None
              \/ \E u \in Tasks : task[u].pc \in {"inflight", "sleep"} /\ task[u].op = op
           THEN /\ Finish(t, tk, "hit", cache)
                /\ UNCHANGED <<session, sessions_created, agents, cacheVars>>
           ELSE /\ _ensure_session
                /\ StartRequest(t, tk)

CallCached(t, op, force) ==
    /\ task[t].pc = "idle"
    /\ calls < MaxCalls
    /\ calls' = calls + 1
    /\ cleared' = FALSE
    /\ UNCHANGED now
    /\ LET tk == [IdleTask EXCEPT !.op = op, !.force = force]
           cache == IF op = "models" THEN _models_cache ELSE _repositories_cache
           ts == IF op = "models" THEN _models_cache_timestamp
                 ELSE _repositories_cache_timestamp
       IN  IF ~force /\ _is_cache_valid(ts) /\ cache # None
           THEN /\ Finish(t, tk, "hit", cache)
                /\ UNCHANGED <<session, sessions_created, agents, cacheVars>>
           ELSE /\ _ensure_session
                /\ StartRequest(t, tk)

\* the arguments a handler reads with args[...] before its request, in the
\* order in which it reads them
\* a handler that reads none of its arguments with args[...]
RequiredArguments_none(op) == <<>>

RequiredArguments(op) ==
    IF op = "create" THEN <<"prompt", "repository_url">>
    ELSE IF op \in {"status", "stop"} THEN <<"agent_id">>
    ELSE IF op = "followup" THEN <<"agent_id", "instruction">>
    ELSE <<>>

KeyError(k) == [exc |-> "KeyError", msg |-> k]

MissingArguments(op, args) ==
    SelectSeq(RequiredArguments(op), LAMBDA k : k \notin DOMAIN args)

\* an agent handler is called: create, status, followup, stop, list or usage
\* with its arguments. args[...] of a missing argument raises KeyError inside
\* the handler's try block; otherwise the handler goes to _make_api_request
CallAgent(t, op, args) ==
    /\ task[t].pc = "idle"
    /\ calls < MaxAgentCalls
    /\ calls' = calls + 1
    /\ UNCHANGED <<now, cleared>>
    /\ LET tk == [IdleTask EXCEPT !.op = op, !.args = args]
           missing == MissingArguments(op, args)
       IN  IF missing # <<>>
           THEN /\ Finish(t, tk, "failed", AgentFailure(KeyError(Head(missing))))
                /\ UNCHANGED <<session, sessions_created, agents, cacheVars>>
           ELSE /\ _ensure_session
                /\ StartRequest(t, tk)

-----------------------------------------------------------------------------
(* _list_repository_branches *)

Msg(m) == [exc |-> "str", msg |-> m]

\* the `except Exception` block, stamping the entry it serves as captured now
BranchesFailed_restamp(t, tk, e) ==
    LET info == _extract_repo_info(tk.url)
    IN  IF info.ok /\ CacheKey(info) \in DOMAIN _branches_cache
        THEN /\ _branches_cache_timestamp' =
                    [_branches_cache_timestamp EXCEPT ![CacheKey(info)] = now]
             /\ UNCHANGED <<_models_cache, _models_cache_timestamp,
                            _repositories_cache, _repositories_cache_timestamp,
                            _branches_cache>>
             /\ Finish(t, tk, "stale", _branches_cache[CacheKey(info)])
        ELSE /\ UNCHANGED cacheVars
             /\ Finish(t, tk, "default", BranchesFallback(tk.url, e, CommonBranches))

\* the `except Exception` block, storing the fallback it returns
BranchesFailed_caching(t, tk, e) ==
    LET info == _extract_repo_info(tk.url)
        fallback == BranchesFallback(tk.url, e, CommonBranches)
    IN  IF info.ok /\ CacheKey(info) \in DOMAIN _branches_cache
        THEN UNCHANGED cacheVars /\ Finish(t, tk, "stale", _branches_cache[CacheKey(info)])
        ELSE IF info.ok
        THEN /\ _branches_cache' = Put(_branches_cache, CacheKey(info), fallback)
             /\ _branches_cache_timestamp' =
                    Put(_branches_cache_timestamp, CacheKey(info), now)
             /\ UNCHANGED <<_models_cache, _models_cache_timestamp,
                            _repositories_cache, _repositories_cache_timestamp>>
             /\ Finish(t, tk, "default", fallback)
        ELSE UNCHANGED cacheVars /\ Finish(t, tk, "default", fallback)

\* the `except Exception` block
BranchesFailed(t, tk, e) ==
    LET info == _extract_repo_info(tk.url)
    IN  /\ UNCHANGED cacheVars
        /\ IF info.ok /\ CacheKey(info) \in DOMAIN _branches_cache
           THEN Finish(t, tk, "stale", _branches_cache[CacheKey(info)])
           ELSE Finish(t, tk, "default", BranchesFallback(tk.url, e, CommonBranches))

\* the body of `async with self.session.get(...) as response`
BranchesResponse(t, tk, r) ==
    LET info == _extract_repo_info(tk.url)
        cache_key == CacheKey(info)
        result == BranchesResult(tk.url, info, r.body)
    IN  IF r.kind = "fault" THEN BranchesFailed(t, tk, Raised(r.exc))
        ELSE IF r.status = 200
        THEN IF r.ctype # "json"
             THEN BranchesFailed(t, tk, Raised("ContentTypeError"))
             ELSE /\ _branches_cache' =
                        [k \in DOMAIN _branches_cache \cup {cache_key} |->
                            IF k = cache_key THEN result ELSE _branches_cache[k]]
                  /\ _branches_cache_timestamp' =
                        [k \in DOMAIN _branches_cache_timestamp \cup {cache_key} |->
                            IF k = cache_key THEN now ELSE _branches_cache_timestamp[k]]
                  /\ UNCHANGED <<_models_cache, _models_cache_timestamp,
                                 _repositories_cache, _repositories_cache_timestamp>>
                  /\ Finish(t, tk, "refreshed", result)
        ELSE /\ UNCHANGED cacheVars
             /\ IF r.status = 404
                THEN Finish(t, tk, "default",
                        BranchesFallback(tk.url,
                            Msg("Repository not found or not accessible"),
                            CommonBranches))
                ELSE IF r.status = 401
                THEN Finish(t, tk, "default",
                        BranchesFallback(tk.url,
                            Msg("Authentication required for private repository"),
                            CommonBranchesPrivate))
                ELSE Finish(t, tk, "default",
                        BranchesFallback(tk.url, Msg("GitHub API error"),
                            CommonBranchesPrivate))

CallBranches(t, repository_url, force) ==
    /\ task[t].pc = "idle"
    /\ calls < MaxCalls
    /\ calls' = calls + 1
    /\ cleared' = FALSE
    /\ UNCHANGED <<session, sessions_created, agents, now>>
    /\ LET tk == [IdleTask EXCEPT !.op = "branches", !.force = force,
                                  !.url = repository_url]
           info == _extract_repo_info(repository_url)
       IN  IF ~info.ok
           THEN BranchesFailed(t, tk, info.error)
           ELSE IF /\ ~force
                   /\ _is_cache_valid(BranchesTimestamp(CacheKey(info)))
                   /\ CacheKey(info) \in DOMAIN _branches_cache
           THEN /\ Finish(t, tk, "hit", _branches_cache[CacheKey(info)])
                /\ UNCHANGED cacheVars
           ELSE IF session = "open"
           THEN /\ task' = [task EXCEPT ![t] = [tk EXCEPT !.pc = "inflight"]]
                /\ UNCHANGED cacheVars
           ELSE BranchesResponse(t, [tk EXCEPT !.hist = Append(@, SessionFault(session))],
                                 SessionFault(session))

-----------------------------------------------------------------------------
(* _make_api_request as a whole *)

\* one call of _make_api_request, from its first line to its return or its
\* exception, by a server configured with max_retries = retries, the
\* transport answering with rs; the answers used, the sleeps and the outcome
\* are left in the task
_make_api_request(t, retries, rs) ==
    /\ task[t].pc = "idle"
    /\ calls < MaxCalls
    /\ calls' = calls + 1
    /\ _ensure_session
    /\ LET run == RequestLoop(retries, 0, rs, <<>>, <<>>)
       IN  Finish(t, [IdleTask EXCEPT !.op = "request",
                                     !.args = [max_retries |-> retries],
                                     !.attempt = Len(run.sleeps),
                                     !.hist = run.hist,
                                     !.sleeps = run.sleeps,
                                     !.outcome = run.outcome],
                  "loop", None)
    /\ UNCHANGED <<agents, cacheVars, now, cleared>>

-----------------------------------------------------------------------------
(* handle_call_tool *)

\* the envelope of the `except Exception` block of handle_call_tool
ToolError(e, name) == [error |-> e, tool |-> name, timestamp |-> utcnow]

\* handle_call_tool raises before it has called a handler
ToolFails(t, op, name, arguments, e) ==
    /\ task[t].pc = "idle"
    /\ calls < MaxCalls
    /\ calls' = calls + 1
    /\ Finish(t, [IdleTask EXCEPT !.op = op, !.args = arguments], "tool_error",
              ToolError(e, name))
    /\ UNCHANGED <<session, sessions_created, agents, cacheVars, now, cleared>>

handle_call_tool(t, name, arguments) ==
    IF name = "cursor_create_background_agent"
    THEN CallAgent(t, "create", arguments)
    ELSE IF name = "cursor_get_agent_status"
    THEN CallAgent(t, "status", arguments)
    ELSE IF name = "cursor_add_followup_instruction"
    THEN CallAgent(t, "followup", arguments)
    ELSE IF name = "cursor_stop_background_agent"
    THEN CallAgent(t, "stop", arguments)
    ELSE IF name = "cursor_list_background_agents"
    THEN CallAgent(t, "list", arguments)
    ELSE IF name = "cursor_get_api_usage"
    THEN CallAgent(t, "usage", <<>>)
    ELSE IF name = "cursor_list_available_models"
    THEN CallCached(t, "models", FALSE)
    ELSE IF name = "cursor_list_repositories"
    THEN CallCached(t, "repositories", FALSE)
    ELSE IF name = "cursor_list_repository_branches"
    THEN IF Get(arguments, "repository_url", <<>>) = <<>>
         THEN ToolFails(t, "branches", name, arguments,
                        ValueError("repository_url is required"))
         ELSE CallBranches(t, arguments.repository_url,
                           Get(arguments, "force_refresh", FALSE))
    ELSE ToolFails(t, "unknown", name, arguments, ValueError("Unknown tool"))

-----------------------------------------------------------------------------
(* handle_read_resource *)

\* the summary of mcp://cursor-agent/agents-summary; its list of agents, in
\* the order of the dictionary, is kept here by agent id
AgentsSummary ==
    [total_agents |-> Cardinality(DOMAIN agents),
     agents_by_status |->
         [st \in {agents[a].status : a \in DOMAIN agents} |->
             Cardinality({a \in DOMAIN agents : agents[a].status = st})],
     agents |->
         [a \in DOMAIN agents |->
             [agent_id |-> agents[a].agent_id, status |-> agents[a].status,
              repository_url |-> agents[a].repository_url,
              created_at |-> agents[a].created_at, branch |-> agents[a].branch]]]

\* a resource that is read without a request
ReadLocal(t, op, result) ==
    /\ task[t].pc = "idle"
    /\ calls < MaxAgentCalls
    /\ calls' = calls + 1
    /\ Finish(t, [IdleTask EXCEPT !.op = op], "read", result)
    /\ UNCHANGED <<session, sessions_created, agents, cacheVars, now, cleared>>

handle_read_resource(t, uri) ==
    IF uri = "mcp://cursor-agent/agents-summary"
    THEN ReadLocal(t, "summary", AgentsSummary)
    ELSE IF uri = "mcp://cursor-agent/usage-metrics"
    THEN CallAgent(t, "usage", <<>>)
    ELSE ReadLocal(t, "resource", [error |-> ValueError("Unknown resource")])

-----------------------------------------------------------------------------
(* The transport answers the request in flight of task t with r *)

Respond(t, r) ==
    /\ task[t].pc = "inflight"
    /\ UNCHANGED <<session, sessions_created, now, calls, cleared>>
    /\ LET tk == [task[t] EXCEPT !.hist = Append(@, r)]
           a == RequestAttempt(tk.attempt, r)
       IN  IF tk.op = "branches" THEN BranchesResponse(t, tk, r) /\ UNCHANGED agents
           ELSE IF a.act = "return" THEN HandleOutcome(t, tk, Returned(a.body))
           ELSE IF a.act = "raise" THEN HandleOutcome(t, tk, Failed(a.error))
           ELSE /\ task' = [task EXCEPT ![t] =
                                [tk EXCEPT !.pc = "sleep",
                                           !.sleeps = Append(@, a.wait)]]
                /\ UNCHANGED <<agents, cacheVars>>

\* asyncio.sleep(wait) is over: the loop goes to its next attempt, or ends.
\* The sleep is a suspension point whose length is recorded in `sleeps`; the
\* clock is moved by Tick alone, at any moment, also while a task sleeps.
Wake(t) ==
    /\ task[t].pc = "sleep"
    /\ UNCHANGED <<session, sessions_created, now, calls, cleared>>
    /\ LET tk == [task[t] EXCEPT !.attempt = @ + 1]
       IN  IF LoopContinues(tk.attempt)
           THEN StartRequest(t, tk)
           ELSE HandleOutcome(t, tk, Failed(FailedToComplete))

\* the caller has taken the result
Return(t) ==
    /\ task[t].pc = "done"
    /\ task' = [task EXCEPT ![t] = IdleTask]
    /\ UNCHANGED <<session, sessions_created, agents, cacheVars, now, calls, cleared>>

-----------------------------------------------------------------------------
(* clear_cache and the clock *)

\* clear_cache without its two assignments to the branches dictionaries
clear_cache_keeps_branches ==
    /\ _models_cache' = None
    /\ _repositories_cache' = None
    /\ _models_cache_timestamp' = NoTime
    /\ _repositories_cache_timestamp' = NoTime
    /\ cleared' = TRUE
    /\ UNCHANGED <<_branches_cache, _branches_cache_timestamp>>
    /\ UNCHANGED <<session, sessions_created, agents, now, calls, task>>

\* clear_cache without its assignments to the timestamps
clear_cache_payloads ==
    /\ _models_cache' = None
    /\ _repositories_cache' = None
    /\ _branches_cache' = <<>>
    /\ cleared' = TRUE
    /\ UNCHANGED <<_models_cache_timestamp, _repositories_cache_timestamp,
                   _branches_cache_timestamp>>
    /\ UNCHANGED <<session, sessions_created, agents, now, calls, task>>

clear_cache ==
    /\ _models_cache' = None
    /\ _repositories_cache' = None
    /\ _branches_cache' = <<>>
    /\ _models_cache_timestamp' = NoTime
    /\ _repositories_cache_timestamp' = NoTime
    /\ _branches_cache_timestamp' = <<>>
    /\ cleared' = TRUE
    /\ UNCHANGED <<session, sessions_created, agents, now, calls, task>>

Tick(d) ==
    /\ now + d <= MaxTime
    /\ now' = now + d
    /\ UNCHANGED <<session, sessions_created, agents, cacheVars, calls, cleared, task>>

-----------------------------------------------------------------------------
(* Inputs *)

Payloads == {<<"x">>, <<"x", "y">>}

Responses ==
    {Http(200, "json", p) : p \in Payloads}
    \cup {Http(201, "json", <<"x">>), Http(200, "text", <<>>)}
    \cup {Http(s, "json", <<>>) : s \in {401, 404, 429, 500}}
    \cup {Http(s, "text", <<>>) : s \in {401, 429}}
    \cup {Fault(e) : e \in {"ClientConnectionError", "ConnectionTimeoutError",
                            "TimeoutError"}}

RepositoryUrls ==
    {HTTPS \o GITHUB \o <<"/", "a", "/", "w">>,
     HTTPS \o GITHUB \o <<"/", "a", "/", "g">>,
     HTTPS \o GITLAB \o <<"/", "a", "/", "w">>}

\* one repository, for the runs that interleave several handlers
OneRepositoryUrl == {HTTPS \o GITHUB \o <<"/", "a", "/", "w">>}

TickSteps == {299, 300}

Init ==
    /\ session = "None"
    /\ sessions_created = 0
    /\ agents = <<>>
    /\ _models_cache = None
    /\ _repositories_cache = None
    /\ _branches_cache = <<>>
    /\ _models_cache_timestamp = NoTime
    /\ _repositories_cache_timestamp = NoTime
    /\ _branches_cache_timestamp = <<>>
    /\ now = 0
    /\ calls = 0
    /\ cleared = FALSE
    /\ task = [t \in Tasks |-> IdleTask]

\* answers that are enough to drive every branch of the cached handlers
CacheResponses ==
    {Http(200, "json", p) : p \in Payloads}
    \cup {Http(s, "json", <<>>) : s \in {401, 404, 500}}
    \cup {Fault(e) : e \in {"ClientConnectionError", "TimeoutError"}}

\* answers for the runs that interleave several handlers
FewResponses ==
    {Http(200, "json", <<"x">>), Http(401, "json", <<>>),
     Fault("ClientConnectionError")}

(* Several callers interleaved at every suspension point, sharing the      *)
(* session, with initialize and cleanup at any moment                      *)
Next ==
    \/ initialize
    \/ cleanup
    \/ \E t \in Tasks, op \in {"models", "repositories"} : CallCached(t, op, FALSE)
    \/ \E t \in Tasks, u \in OneRepositoryUrl : CallBranches(t, u, FALSE)
    \/ \E t \in Tasks, r \in FewResponses : Respond(t, r)
    \/ \E t \in Tasks : Wake(t)
    \/ \E t \in Tasks : Return(t)

Spec == Init /\ [][Next]_vars

(* One caller at a time using the cached handlers while time passes *)
NextCache ==
    \/ initialize
    \/ clear_cache
    \/ \E d \in TickSteps : Tick(d)
    \/ \E op \in {"models", "repositories"}, force \in BOOLEAN :
          CallCached(1, op, force)
    \/ \E u \in RepositoryUrls, force \in BOOLEAN : CallBranches(1, u, force)
    \/ \E r \in CacheResponses : Respond(1, r)
    \/ Wake(1)
    \/ Return(1)

SpecCache == Init /\ [][NextCache]_vars

(* One caller at a time going through _make_api_request, against every answer *)
NextExec ==
    \/ cleanup
    \/ \E op \in {"models", "repositories"} : CallCached(1, op, FALSE)
    \/ \E r \in Responses : Respond(1, r)
    \/ Wake(1)
    \/ Return(1)

SpecExec == Init /\ [][NextExec]_vars

(* One caller at a time using the agent handlers and the registry *)
AgentIds == {"a1", "a2"}

CreateArgs ==
    {[repository_url |-> "r1", prompt |-> "p1"],
     [repository_url |-> "r2", prompt |-> "p2", branch |-> "dev", model |-> "o3"]}

\* decoded bodies of the agents API: any of the fields the handlers read may
\* be missing
AgentBodies ==
    {[id |-> "a1", status |-> "RUNNING", createdAt |-> "c1"],
     [id |-> "a2"],
     [status |-> "FINISHED", progress |-> "p50"],
     [status |-> "running"],
     <<>>}

AgentResponses ==
    {Http(200, "json", b) : b \in AgentBodies}
    \cup {Http(401, "json", <<>>), Fault("ClientConnectionError")}

NextAgents ==
    \/ \E a \in CreateArgs : CallAgent(1, "create", a)
    \/ \E id \in AgentIds : CallAgent(1, "status", [agent_id |-> id])
    \/ CallAgent(1, "followup", [agent_id |-> "a1", instruction |-> "i1"])
    \/ CallAgent(1, "usage", <<>>)
    \/ Tick(300)
    \/ \E r \in AgentResponses : Respond(1, r)
    \/ Wake(1)
    \/ Return(1)

SpecAgents == Init /\ [][NextAgents]_vars

(* Several callers interleaved on the registry, every agent handler, each   *)
(* request answered by a body of its endpoint or by a 401                  *)
ListArgs ==
    {<<>>, [status_filter |-> "running"], [repository_filter |-> "r1", limit |-> 5]}

\* decoded bodies of GET /v0/agents: the records carry agent_id or, like the
\* answer to a create, id
ListBodies ==
    {[agents |-> <<[agent_id |-> "a1", status |-> "running",
                    repository_url |-> "r9", branch |-> "b9", model |-> "m9"],
                   [agent_id |-> "a2", status |-> "FINISHED"]>>],
     [agents |-> <<[agent_id |-> "a1"]>>],
     [agents |-> <<[id |-> "a1", status |-> "RUNNING"]>>],
     <<>>}

BodiesFor(op) ==
    IF op = "create" THEN {[id |-> "a1", status |-> "RUNNING", createdAt |-> "c1"], <<>>}
    ELSE IF op = "status" THEN {[status |-> "FINISHED", progress |-> "p50"], <<>>}
    ELSE IF op = "list" THEN ListBodies
    ELSE IF op = "usage" THEN {[usage |-> "u1"]}
    ELSE {<<>>}

ResponsesFor(op) ==
    {Http(200, "json", b) : b \in BodiesFor(op)} \cup {Http(401, "json", <<>>)}

\* the two callers that are interleaved
TwoCallers == {1, 2}

NextRegistry ==
    \/ \E t \in TwoCallers :
          CallAgent(t, "create", [repository_url |-> "r1", prompt |-> "p1"])
    \/ \E t \in TwoCallers :
          \E op \in {"status", "stop"} : CallAgent(t, op, [agent_id |-> "a1"])
    \/ \E t \in TwoCallers :
          CallAgent(t, "followup", [agent_id |-> "a1", instruction |-> "i1"])
    \/ \E t \in TwoCallers, a \in ListArgs : CallAgent(t, "list", a)
    \/ \E t \in TwoCallers : CallAgent(t, "usage", <<>>)
    \/ \E t \in TwoCallers : CallCached(t, "models", FALSE)
    \/ clear_cache
    \/ \E t \in TwoCallers : \E r \in ResponsesFor(task[t].op) : Respond(t, r)
    \/ \E t \in TwoCallers : Return(t)

SpecRegistry == Init /\ [][NextRegistry]_vars

(* One caller at a time going through handle_call_tool, with every tool    *)
(* name, an unknown one, and arguments with required ones missing          *)
ToolNames ==
    {"cursor_create_background_agent", "cursor_get_agent_status",
     "cursor_add_followup_instruction", "cursor_stop_background_agent",
     "cursor_list_background_agents", "cursor_get_api_usage",
     "cursor_list_available_models", "cursor_list_repositories",
     "cursor_list_repository_branches", "cursor_restart_background_agent"}

ArgumentsFor(name) ==
    IF name = "cursor_create_background_agent"
    THEN {[repository_url |-> "r1", prompt |-> "p1"], [prompt |-> "p1"],
          [repository_url |-> "r1"], <<>>}
    ELSE IF name \in {"cursor_get_agent_status", "cursor_stop_background_agent"}
    THEN {[agent_id |-> "a1"], <<>>}
    ELSE IF name = "cursor_add_followup_instruction"
    THEN {[agent_id |-> "a1", instruction |-> "i1"], [agent_id |-> "a1"],
          [instruction |-> "i1"]}
    ELSE IF name = "cursor_list_repository_branches"
    THEN {[repository_url |-> u] : u \in RepositoryUrls}
         \cup {<<>>, [repository_url |-> <<>>], [force_refresh |-> TRUE]}
    ELSE {<<>>}

NextTools ==
    \/ initialize
    \/ \E name \in ToolNames : \E a \in ArgumentsFor(name) :
          handle_call_tool(1, name, a)
    \/ \E r \in ResponsesFor(task[1].op) : Respond(1, r)
    \/ Return(1)

SpecTools == Init /\ [][NextTools]_vars

(* list-branches called with URLs of every shape: scheme or none, host,   *)
(* and what follows the host                                               *)
UrlSchemes == {HTTPS, HTTP, <<"g", "i", "t", "@">>, <<>>}
UrlHosts == {GITHUB, GITLAB}
UrlTails ==
    {<<>>, <<"/">>, <<"/", "a">>, <<"/", "a", "/">>, <<"/", "a", "/", "w">>,
     <<"/", "a", "/", "w", "/">>, <<"/", "a", "/", "w", "/", "t">>,
     <<":", "a", "/", "w">>, SLASH \o GITHUB \o <<"/", "a", "/", "w">>}
UrlInputs == {s \o h \o t : s \in UrlSchemes, h \in UrlHosts, t \in UrlTails}

NextUrls ==
    \/ initialize
    \/ \E u \in UrlInputs : CallBranches(1, u, FALSE)
    \/ \E r \in FewResponses : Respond(1, r)
    \/ Return(1)

SpecUrls == Init /\ [][NextUrls]_vars

(* Two callers of the cached handlers interleaved, with two payloads and  *)
(* the clock moving between their steps                                    *)
RaceResponses ==
    {Http(200, "json", p) : p \in Payloads} \cup {Http(401, "json", <<>>)}

NextRace ==
    \/ initialize
    \/ \E t \in TwoCallers, op \in {"models", "repositories"} :
          CallCached(t, op, FALSE)
    \/ \E t \in TwoCallers, u \in OneRepositoryUrl : CallBranches(t, u, FALSE)
    \/ \E t \in TwoCallers, r \in RaceResponses : Respond(t, r)
    \/ Tick(300)
    \/ \E t \in TwoCallers : Return(t)

SpecRace == Init /\ [][NextRace]_vars

(* Two callers, one asking for the status of an agent, the other reading   *)
(* the registry while that request is in flight or asleep                  *)
ResourceUris ==
    {"mcp://cursor-agent/agents-summary", "mcp://cursor-agent/usage-metrics",
     "mcp://cursor-agent/logs"}

NextObserve ==
    \/ \E t \in TwoCallers :
          CallAgent(t, "create", [repository_url |-> "r1", prompt |-> "p1"])
    \/ \E t \in TwoCallers : CallAgent(t, "status", [agent_id |-> "a1"])
    \/ \E t \in TwoCallers, uri \in ResourceUris : handle_read_resource(t, uri)
    \/ \E t \in TwoCallers :
          \E r \in ResponsesFor(task[t].op) \cup {Http(429, "json", <<>>)} :
             Respond(t, r)
    \/ \E t \in TwoCallers : Wake(t)
    \/ \E t \in TwoCallers : Return(t)

SpecObserve == Init /\ [][NextObserve]_vars

(* _make_api_request for every max_retries up to MaxRetries, against every *)
(* sequence of answers                                                     *)
LoopResponses ==
    {Http(200, "json", <<"x">>), Http(429, "json", <<>>), Http(429, "text", <<>>),
     Http(500, "json", <<>>), Fault("ClientConnectionError"), Fault("TimeoutError")}

NextLoop ==
    \/ \E retries \in 0..MaxRetries : \E rs \in [1..(MaxRetries + 1) -> LoopResponses] :
          _make_api_request(1, retries, rs)
    \/ Return(1)

SpecLoop == Init /\ [][NextLoop]_vars

(* Two callers, stop against status and list: each status and list call   *)
(* is given, in an argument that the handlers do not read, the status that *)
(* the record of a1 had when the call was made                             *)
RegistryStatus(id) == IF id \in DOMAIN agents THEN agents[id].status ELSE "absent"

NextStop ==
    \/ \E t \in TwoCallers :
          CallAgent(t, "create", [repository_url |-> "r1", prompt |-> "p1"])
    \/ \E t \in TwoCallers :
          CallAgent(t, "status", [agent_id |-> "a1", seen |-> RegistryStatus("a1")])
    \/ \E t \in TwoCallers : CallAgent(t, "list", [seen |-> RegistryStatus("a1")])
    \/ \E t \in TwoCallers : CallAgent(t, "stop", [agent_id |-> "a1"])
    \/ \E t \in TwoCallers : \E r \in ResponsesFor(task[t].op) : Respond(t, r)
    \/ \E t \in TwoCallers : Return(t)

SpecStop == Init /\ [][NextStop]_vars

-----------------------------------------------------------------------------
(* Properties *)

\* the cache slot a call reads: is an entry stored, when was it captured, what is it
SlotKey(url) == CacheKey(_extract_repo_info(url))
SlotStored(op, url) ==
    IF op = "models" THEN _models_cache # None
    ELSE IF op = "repositories" THEN _repositories_cache # None
    ELSE /\ _extract_repo_info(url).ok
         /\ SlotKey(url) \in DOMAIN _branches_cache
SlotTimestamp(op, url) ==
    IF op = "models" THEN _models_cache_timestamp
    ELSE IF op = "repositories" THEN _repositories_cache_timestamp
    ELSE IF _extract_repo_info(url).ok
            /\ SlotKey(url) \in DOMAIN _branches_cache_timestamp
         THEN _branches_cache_timestamp[SlotKey(url)]
         ELSE NoTime
SlotPayload(op, url) ==
    IF op = "models" THEN _models_cache
    ELSE IF op = "repositories" THEN _repositories_cache
    ELSE _branches_cache[SlotKey(url)]
SlotFresh(op, url) ==
    /\ SlotStored(op, url)
    /\ SlotTimestamp(op, url) # NoTime
    /\ now - SlotTimestamp(op, url) < 300

\* C1: a call of list-models, list-repositories or list-branches made without
\* force_refresh while the entry of its key is less than 300 seconds old returns
\* the cached payload at once: no request is issued (the call never has a
\* request in flight) and the cache is left as it was.
C1_Step(t) ==
    LET tk == task'[t]
    IN  (/\ task[t].pc = "idle"
         /\ tk.pc # "idle"
         /\ ~tk.force
         /\ SlotFresh(tk.op, tk.url))
        => (/\ tk.pc = "done"
            /\ tk.hist = <<>>
            /\ tk.result = SlotPayload(tk.op, tk.url)
            /\ UNCHANGED cacheVars)
C1_FreshEntryServedWithoutRequest == [][\A t \in Tasks : C1_Step(t)]_vars

\* the second of two calls for a branches key, 299 seconds after the first one
\* stored the entry, has returned the entry without a request
C1_Witness ==
    \E t \in Tasks :
        /\ task[t].pc = "done" /\ task[t].op = "branches" /\ ~task[t].force
        /\ calls = 2 /\ task[t].hist = <<>>
        /\ SlotFresh("branches", task[t].url)
        /\ now - SlotTimestamp("branches", task[t].url) = 299
        /\ task[t].result = SlotPayload("branches", task[t].url)
        /\ task[t].result.success

Last(h) == h[Len(h)]

\* C2: when the request of list-models or list-repositories fails (whatever
\* _make_api_request raised) while an entry of an earlier successful refresh is
\* stored, the call returns that entry, not the hardcoded default; this holds for
\* an expired entry and with force_refresh.
C2_Step(t) ==
    LET tk == task'[t]
    IN  (/\ task[t].pc # "done"
         /\ tk.pc = "done"
         /\ tk.op \in {"models", "repositories"}
         /\ tk.outcome # None
         /\ ~tk.outcome.ok
         /\ SlotStored(tk.op, tk.url))
        => (/\ tk.result = SlotPayload(tk.op, tk.url)
            /\ tk.result.success)
C2_StaleEntryOnFailedRefresh == [][\A t \in Tasks : C2_Step(t)]_vars

\* a forced refresh of the repositories that ended in a network error after
\* max_retries attempts has returned the entry stored 300 seconds earlier
C2_Witness ==
    \E t \in Tasks :
        /\ task[t].pc = "done" /\ task[t].op = "repositories" /\ task[t].force
        /\ task[t].outcome = Failed(NetworkError("ClientConnectionError"))
        /\ Len(task[t].hist) = max_retries
        /\ _repositories_cache # None
        /\ now - _repositories_cache_timestamp = 300
        /\ task[t].result = _repositories_cache
        /\ task[t].result.success

\* the answer r is a successful refresh of list-branches
BranchesRefreshed(r) == r.kind = "http" /\ r.status = 200 /\ r.ctype = "json"

\* C3: whenever the request of list-branches fails, by a 404, a 401, another
\* non-200 status or a transport fault, while an entry is stored for the
\* repository key, the call returns that entry.
C3_Step(t) ==
    LET tk == task'[t]
    IN  (/\ task[t].pc # "done"
         /\ tk.pc = "done"
         /\ tk.op = "branches"
         /\ tk.hist # <<>>
         /\ ~BranchesRefreshed(Last(tk.hist))
         /\ SlotStored("branches", tk.url))
        => tk.result = SlotPayload("branches", tk.url)
C3_StaleBranchesOnAnyFailure == [][\A t \in Tasks : C3_Step(t)]_vars

-----------------------------------------------------------------------------
(* _make_api_request, seen through the calls of list-models and            *)
(* list-repositories: hist holds the answers to the requests of the call   *)
(* (and a SessionFault for an attempt that found the session closed, so    *)
(* nothing was sent), sleeps the backoff sleeps it has started, outcome    *)
(* what it returned or raised.                                             *)

UsesExecutor(tk) == tk.op \in {"models", "repositories"}

\* the requests the call has issued
Sent(r) == r.kind = "http" \/ r.exc \notin {"RuntimeError", "AttributeError"}
Requests(tk) ==
    Len(SelectSeq(tk.hist, Sent)) + IF tk.pc = "inflight" THEN 1 ELSE 0

Is429(r) == r.kind = "http" /\ r.status = 429
IsDecoded200(r) == r.kind = "http" /\ r.status = 200 /\ r.ctype = "json"

\* C4: max_retries is 3; a call whose requests are answered 429, 429 and then
\* 200 has issued exactly three requests, has slept 2^0 and then 2^1 seconds,
\* and returns the decoded body of the 200 answer.
C4_TwoRateLimitsThenSuccess ==
    \A t \in Tasks :
        LET tk == task[t]
            h == tk.hist
        IN  (/\ UsesExecutor(tk)
             /\ Len(h) = 3
             /\ Is429(h[1]) /\ Is429(h[2]) /\ IsDecoded200(h[3]))
            => (/\ max_retries = 3
                /\ tk.pc = "done"
                /\ Requests(tk) = 3
                /\ tk.sleeps = <<1, 2>>
                /\ tk.outcome = Returned(h[3].body))

C4_Witness ==
    \E t \in Tasks :
        /\ task[t].op = "models"
        /\ task[t].hist = <<Http(429, "json", <<>>), Http(429, "json", <<>>),
                            Http(200, "json", <<"x", "y">>)>>
        /\ task[t].result = ModelsResult(<<"x", "y">>)

\* C5: an answer with status 401, or any status other than 200, 201 and 429,
\* ends the call with a failure on that attempt: it is the last answer of the
\* call and no sleep was started after it.
FinalStatus(r) == r.kind = "http" /\ r.status \notin {200, 201, 429}
C5_DefiniteStatusFailsAtOnce ==
    \A t \in Tasks :
        LET tk == task[t]
        IN  UsesExecutor(tk) =>
            \A i \in 1..Len(tk.hist) :
                FinalStatus(tk.hist[i])
                => (/\ i = Len(tk.hist)
                    /\ tk.pc = "done"
                    /\ tk.outcome # None
                    /\ ~tk.outcome.ok
                    /\ Len(tk.sleeps) < i)

\* what holds of the code: C5 for the answers whose body is application/json
C5_JsonBodies ==
    \A t \in Tasks :
        LET tk == task[t]
        IN  UsesExecutor(tk) =>
            \A i \in 1..Len(tk.hist) :
                (FinalStatus(tk.hist[i]) /\ tk.hist[i].ctype = "json")
                => (/\ i = Len(tk.hist)
                    /\ tk.pc = "done"
                    /\ tk.outcome # None
                    /\ ~tk.outcome.ok
                    /\ Len(tk.sleeps) < i)

\* the backoff sleeps started by a call that has had n answers, all retried
Backoffs(n) == [i \in 1..n |-> 2 ^ (i - 1)]

\* C6: a call all of whose attempts ended in a network-level fault (connection
\* reset, timeout, DNS failure) goes on to max_retries requests, sleeping
\* 2^attempt after every attempt but the last, and then fails with the network
\* error that names the last fault.
NetworkFault(r) ==
    /\ r.kind = "fault"
    /\ r.exc \in {"ClientConnectionError", "ConnectionTimeoutError", "TimeoutError"}
C6_Faulted(tk) ==
    LET h == tk.hist
    IN  IF Len(h) < max_retries
        THEN /\ tk.pc \in {"sleep", "inflight"}
             /\ tk.sleeps = Backoffs(Len(h))
        ELSE /\ Len(h) = max_retries
             /\ tk.pc = "done"
             /\ tk.sleeps = Backoffs(max_retries - 1)
             /\ tk.outcome = Failed(NetworkError(Last(h).exc))
C6_NetworkFaultsRetried ==
    \A t \in Tasks :
        LET tk == task[t]
        IN  (/\ UsesExecutor(tk)
             /\ tk.hist # <<>>
             /\ \A i \in 1..Len(tk.hist) : NetworkFault(tk.hist[i]))
            => C6_Faulted(tk)

\* what holds of the code: C6 for the faults that are an aiohttp.ClientError
C6_ClientErrors ==
    \A t \in Tasks :
        LET tk == task[t]
        IN  (/\ UsesExecutor(tk)
             /\ tk.hist # <<>>
             /\ \A i \in 1..Len(tk.hist) :
                    NetworkFault(tk.hist[i]) /\ IsClientError(tk.hist[i].exc))
            => C6_Faulted(tk)

\* C7: a call all of whose attempts were answered 429 issues max_retries
\* requests, never more, never returns a payload, and ends with the failure
\* 'Failed to complete request'.
C7_SustainedRateLimit ==
    \A t \in Tasks :
        LET tk == task[t]
        IN  (/\ UsesExecutor(tk)
             /\ tk.hist # <<>>
             /\ \A i \in 1..Len(tk.hist) : Is429(tk.hist[i]))
            => (/\ Requests(tk) <= max_retries
                /\ tk.pc = "done"
                   => (/\ Requests(tk) = max_retries
                       /\ tk.outcome = Failed(FailedToComplete)))

\* what holds of the code: C7 for 429 answers whose body is application/json
C7_JsonBodies ==
    \A t \in Tasks :
        LET tk == task[t]
        IN  (/\ UsesExecutor(tk)
             /\ tk.hist # <<>>
             /\ \A i \in 1..Len(tk.hist) :
                    Is429(tk.hist[i]) /\ tk.hist[i].ctype = "json")
            => (/\ Requests(tk) <= max_retries
                /\ tk.pc = "done"
                   => (/\ Requests(tk) = max_retries
                       /\ tk.outcome = Failed(FailedToComplete)))

\* C8: a request that runs into the configured timeout is treated like a
\* connection reset: before the last attempt it is followed by the 2^attempt
\* sleep and another attempt, and on the last attempt it surfaces as the network
\* error.
TimedOut(r) == r.kind = "fault" /\ r.exc \in {"TimeoutError", "ConnectionTimeoutError"}
C8_TimeoutRetried ==
    \A t \in Tasks :
        LET tk == task[t]
        IN  UsesExecutor(tk) =>
            \A i \in 1..Len(tk.hist) :
                TimedOut(tk.hist[i])
                => IF i < max_retries
                   THEN /\ Len(tk.sleeps) >= i
                        /\ tk.sleeps[i] = 2 ^ (i - 1)
                   ELSE /\ tk.pc = "done"
                        /\ tk.outcome = Failed(NetworkError(tk.hist[i].exc))

-----------------------------------------------------------------------------
(* Transport session *)

\* C9: a server instance constructs at most one session, whatever the
\* interleaving of initialize and of the handlers: a session exists exactly when
\* one was constructed, and it is never replaced by a second one.
C9_AtMostOneSession ==
    /\ sessions_created <= 1
    /\ (session = "None") <=> (sessions_created = 0)

\* two handlers have their requests in flight at the same time, on one session
C9_Witness ==
    /\ sessions_created = 1
    /\ \E t1, t2 \in Tasks :
          /\ t1 # t2
          /\ task[t1].pc = "inflight" /\ task[t1].op = "models"
          /\ task[t2].pc = "inflight" /\ task[t2].op = "branches"

\* C10: cleanup can always be called, and once it has been called, calling it
\* again changes nothing; called on a server that never had a session it
\* changes nothing either.
CleanupChangesNothing == ENABLED cleanup /\ ~ENABLED <<cleanup>>_vars
C10_CleanupIdempotent ==
    /\ ENABLED cleanup
    /\ (session = "None" \/ session = "closed") => CleanupChangesNothing

\* cleanup has closed the session while a handler's request was in flight
C10_Witness ==
    /\ session = "closed"
    /\ CleanupChangesNothing
    /\ \E t \in Tasks : task[t].pc = "inflight"

\* C11: in every state reached by any sequence of _ensure_session and cleanup
\* calls (and handler calls), _ensure_session can be called and leaves the server
\* with an open session; in particular it does so after cleanup.
C11_EnsureSessionGivesReadySession ==
    /\ ENABLED initialize
    /\ ~ENABLED (initialize /\ session' # "open")

\* what holds of the code: _ensure_session gives an open session as long as
\* cleanup has not closed one
C11_UntilCleanup ==
    session # "closed" => ~ENABLED (initialize /\ session' # "open")

-----------------------------------------------------------------------------
(* Cache content *)

\* every entry stored before the step is stored after it, with a timestamp
EntriesKept ==
    /\ _models_cache # None => _models_cache' # None
    /\ _models_cache_timestamp # NoTime => _models_cache_timestamp' # NoTime
    /\ _repositories_cache # None => _repositories_cache' # None
    /\ _repositories_cache_timestamp # NoTime
          => _repositories_cache_timestamp' # NoTime
    /\ DOMAIN _branches_cache \subseteq DOMAIN _branches_cache'
    /\ DOMAIN _branches_cache_timestamp \subseteq DOMAIN _branches_cache_timestamp'

\* the step ends a call of a cached handler whose refresh did not succeed
RefreshFailed(t) ==
    /\ task[t].pc # "done"
    /\ task'[t].pc = "done"
    /\ task'[t].op \in {"models", "repositories", "branches"}
    /\ task'[t].via \in {"stale", "default"}

\* C12: no step other than clear_cache removes an entry or its timestamp, also
\* not the passing of time that lets the entry expire; and a call whose refresh
\* failed, with force_refresh or without, leaves the payload and the timestamp
\* of every key as they were, so the stale entry it served is as old as before.
C12_Step ==
    /\ ~clear_cache => EntriesKept
    /\ \A t \in Tasks : RefreshFailed(t) => UNCHANGED cacheVars
C12_OnlyClearCacheRemoves == [][C12_Step]_vars

\* a list-branches call whose request ran into a connection error has served
\* the entry of its key, which had expired and is still expired
C12_Witness ==
    \E t \in Tasks :
        /\ task[t].pc = "done" /\ task[t].op = "branches" /\ task[t].via = "stale"
        /\ task[t].hist = <<Fault("ClientConnectionError")>>
        /\ SlotStored("branches", task[t].url)
        /\ task[t].result = SlotPayload("branches", task[t].url)
        /\ now - SlotTimestamp("branches", task[t].url) >= 300

\* C13: a call of list-models, list-repositories or list-branches made without
\* force_refresh on a stored entry returns the entry with no refresh attempt
\* exactly when now minus the entry's timestamp is less than 300: it does at
\* age 299, and at age 300 or more the call attempts a refresh.
C13_Step(t) ==
    LET tk == task'[t]
    IN  (/\ task[t].pc = "idle"
         /\ tk.pc # "idle"
         /\ tk.op \in {"models", "repositories", "branches"}
         /\ ~tk.force
         /\ SlotStored(tk.op, tk.url))
        => IF now - SlotTimestamp(tk.op, tk.url) < 300
           THEN /\ tk.pc = "done" /\ tk.via = "hit" /\ tk.hist = <<>>
                /\ tk.result = SlotPayload(tk.op, tk.url)
           ELSE /\ tk.via # "hit"
                /\ tk.pc = "inflight" \/ tk.hist # <<>>
C13_FreshnessWindow == [][\A t \in Tasks : C13_Step(t)]_vars

\* a list-models call made exactly 300 seconds after the entry was stored has
\* its refresh request in flight
C13_Witness ==
    \E t \in Tasks :
        /\ task[t].pc = "inflight" /\ task[t].op = "models" /\ ~task[t].force
        /\ task[t].hist = <<>>
        /\ _models_cache # None
        /\ now - _models_cache_timestamp = 300

\* C14: the first call of a cached handler made after clear_cache has returned
\* attempts a refresh and does not serve a cached payload, whatever was in
\* flight when the cache was cleared.
C14_Step(t) ==
    LET tk == task'[t]
    IN  (/\ cleared
         /\ task[t].pc = "idle"
         /\ tk.pc # "idle"
         /\ tk.op \in {"models", "repositories", "branches"}
         /\ _extract_repo_info(tk.url).ok \/ tk.op # "branches")
        => (/\ tk.via # "hit"
            /\ tk.pc = "inflight" \/ tk.hist # <<>>)
C14_RefreshAfterClear == [][\A t \in Tasks : C14_Step(t)]_vars

\* what holds of the code: the call that follows clear_cache immediately, with
\* no step in between, attempts a refresh
C14_Immediately ==
    [][\A t \in Tasks :
          (/\ _models_cache = None /\ _repositories_cache = None
           /\ _branches_cache = <<>>)
          => C14_Step(t)]_vars

\* no slot holds a payload or a timestamp
CacheEmpty ==
    /\ _models_cache = None /\ _models_cache_timestamp = NoTime
    /\ _repositories_cache = None /\ _repositories_cache_timestamp = NoTime
    /\ _branches_cache = <<>> /\ _branches_cache_timestamp = <<>>

\* every slot has its payload and its timestamp, or neither
CacheWhole ==
    /\ (_models_cache = None) <=> (_models_cache_timestamp = NoTime)
    /\ (_repositories_cache = None) <=> (_repositories_cache_timestamp = NoTime)
    /\ DOMAIN _branches_cache = DOMAIN _branches_cache_timestamp

\* the hardcoded default of the handler of call tk
IsDefault(tk) ==
    /\ tk.via = "default"
    /\ ~tk.result.success
    /\ IF tk.op = "models" THEN tk.result.models = DefaultModels
       ELSE IF tk.op = "repositories" THEN tk.result.repositories = <<>>
       ELSE tk.result.branches \in {CommonBranches, CommonBranchesPrivate}

\* C15: clear_cache empties every slot and every timestamp in one step, so that
\* no state has a slot half cleared (a payload without its timestamp or the
\* reverse); and a call whose refresh fails while its slot is empty, as it is
\* after clear_cache, returns the hardcoded default of its handler.
C15_Step ==
    /\ clear_cache => CacheEmpty'
    /\ \A t \in Tasks :
          (RefreshFailed(t) /\ ~SlotStored(task'[t].op, task'[t].url))
          => IsDefault(task'[t])
C15_ClearCacheAtomic == []CacheWhole /\ [][C15_Step]_vars

\* a forced refresh of the models was in flight when clear_cache ran; it was
\* then answered 500 and has returned the hardcoded models
C15_Witness ==
    /\ cleared
    /\ CacheEmpty
    /\ \E t \in Tasks :
          /\ task[t].pc = "done" /\ task[t].op = "models" /\ task[t].force
          /\ task[t].hist = <<Http(500, "json", <<>>)>>
          /\ task[t].result = ModelsFallback(ApiRequestFailed(500))

-----------------------------------------------------------------------------
(* Failure envelopes *)

\* the remote request of the finished call tk failed
RequestFailed(tk) ==
    /\ tk.pc = "done"
    /\ IF tk.op = "branches"
       THEN tk.hist # <<>> /\ ~BranchesRefreshed(Last(tk.hist))
       ELSE tk.outcome # None /\ ~tk.outcome.ok

\* C16: whenever the remote request of list-models, list-repositories,
\* list-branches or usage has failed, the envelope the call returns has
\* success = false, also when it carries a stale cached payload.
C16_FailureIsReported ==
    \A t \in Tasks :
        (/\ task[t].op \in {"models", "repositories", "branches", "usage"}
         /\ RequestFailed(task[t]))
        => ~task[t].result.success

\* what holds of the code: C16 for the calls that do not serve a stale entry
C16_UnlessStale ==
    \A t \in Tasks :
        (/\ task[t].op \in {"models", "repositories", "branches", "usage"}
         /\ RequestFailed(task[t])
         /\ task[t].via # "stale")
        => ~task[t].result.success

\* C17: when the request of list-models or list-repositories fails while no
\* entry is stored for it, the call returns, without raising, an envelope with
\* success = false that carries the three hardcoded model names, respectively
\* an empty repositories list, and the cache is left untouched.
C17_Step(t) ==
    LET tk == task'[t]
    IN  (/\ RefreshFailed(t)
         /\ tk.op \in {"models", "repositories"}
         /\ ~SlotStored(tk.op, tk.url))
        => (/\ tk.outcome # None /\ ~tk.outcome.ok
            /\ ~tk.result.success
            /\ tk.result.error = tk.outcome.error
            /\ tk.op = "models"
                  => tk.result.models =
                        <<"claude-4-sonnet-thinking", "o3", "claude-4-opus-thinking">>
            /\ tk.op = "repositories" => tk.result.repositories = <<>>
            /\ UNCHANGED cacheVars
            /\ CacheWhole')
C17_DefaultsWithoutEntry == [][\A t \in Tasks : C17_Step(t)]_vars

\* the first list-repositories call was answered 401 and has returned the
\* empty list
C17_Witness ==
    /\ CacheEmpty
    /\ \E t \in Tasks :
          /\ task[t].pc = "done" /\ task[t].op = "repositories"
          /\ task[t].hist = <<Http(401, "json", <<>>)>>
          /\ task[t].result = RepositoriesFallback(AuthenticationFailed)
          /\ task[t].result.repositories = <<>>
          /\ ~task[t].result.success

-----------------------------------------------------------------------------
(* Agent registry *)

\* the step ends a call of the agent handler op
Finishes(t, op) ==
    /\ task[t].pc # "done"
    /\ task'[t].pc = "done"
    /\ task'[t].op = op

\* the records of the registry other than the one of key are left as they were
OthersUnchanged(key) ==
    \A a \in DOMAIN agents \ {key} : a \in DOMAIN agents' /\ agents'[a] = agents[a]

\* C18: a create call whose request succeeded has written exactly one record,
\* under the id of the response or, when the response has none, under the
\* synthesized id it returns, and the registry has one more record when that id
\* is new; a create call whose request failed leaves the registry unchanged and
\* returns success = false with no agent_id.
C18_Step(t) ==
    LET tk == task'[t]
        key == tk.result.agent_id
    IN  Finishes(t, "create") =>
        IF tk.outcome.ok
        THEN /\ tk.result.success
             /\ "id" \in DOMAIN tk.outcome.body => key = tk.outcome.body.id
             /\ DOMAIN agents' = DOMAIN agents \cup {key}
             /\ OthersUnchanged(key)
             /\ key \notin DOMAIN agents
                   => Cardinality(DOMAIN agents') = Cardinality(DOMAIN agents) + 1
             /\ agents'[key].agent_id = key
             /\ agents'[key].repository_url = tk.args.repository_url
             /\ agents'[key].prompt = tk.args.prompt
        ELSE /\ UNCHANGED agents
             /\ ~tk.result.success
             /\ "agent_id" \notin DOMAIN tk.result
C18_CreateWritesOneRecord == [][\A t \in Tasks : C18_Step(t)]_vars

\* two creates have succeeded, one answered with the id a1 and one with no id,
\* and a third has failed: the registry holds the two records
C18_Witness ==
    /\ DOMAIN agents = {"a1", "agent-0"}
    /\ agents["a1"].repository_url = "r1"
    /\ agents["agent-0"].status = "CREATING"
    /\ \E t \in Tasks :
          /\ task[t].pc = "done" /\ task[t].op = "create"
          /\ task[t].hist = <<Http(401, "json", <<>>)>>
          /\ task[t].result = AgentFailure(AuthenticationFailed)

\* the fields of a record that are set at creation
CreationFields(agent) ==
    <<agent.agent_id, agent.repository_url, agent.prompt, agent.branch,
      agent.model, agent.created_at>>

\* C19: a get-status call that succeeds for an id of the registry sets the
\* status and the progress of that record to the values of the response, leaves
\* a value whose field is absent from the response as it was stored, and leaves
\* repository_url, prompt, branch, model and created_at as create stored them;
\* and no step other than a create changes these of any record.
C19_Step(t) ==
    LET tk == task'[t]
        id == tk.args.agent_id
        response == tk.outcome.body
    IN  (/\ Finishes(t, "status")
         /\ tk.outcome.ok
         /\ id \in DOMAIN agents)
        => (/\ id \in DOMAIN agents'
            /\ agents'[id].status =
                  IF "status" \in DOMAIN response THEN response.status
                  ELSE agents[id].status
            /\ agents'[id].progress =
                  IF "progress" \in DOMAIN response THEN response.progress
                  ELSE agents[id].progress
            /\ CreationFields(agents'[id]) = CreationFields(agents[id])
            /\ OthersUnchanged(id))
C19_Kept ==
    (\A t \in Tasks : ~Finishes(t, "create"))
    => \A a \in DOMAIN agents :
          /\ a \in DOMAIN agents'
          /\ CreationFields(agents'[a]) = CreationFields(agents[a])
C19_StatusMergedIntoRecord == [][C19_Kept /\ \A t \in Tasks : C19_Step(t)]_vars

\* create was answered with id a1 and status RUNNING; a get-status for a1 was
\* answered with the status FINISHED, and a later one with no status field
C19_Witness ==
    /\ "a1" \in DOMAIN agents
    /\ agents["a1"] =
          [BackgroundAgent("a1", "FINISHED", "r2", "p2", "dev", "o3", "c1")
           EXCEPT !.progress = "p50", !.updated_at = "300"]
    /\ \E t \in Tasks :
          /\ task[t].pc = "done" /\ task[t].op = "status"
          /\ task[t].args.agent_id = "a1"
          /\ task[t].hist = <<Http(200, "json", <<>>)>>
          /\ task[t].result.status = "unknown"

\* C20: a get-status call never changes the set of ids of the registry, in
\* particular it inserts nothing for an id that is not there, and when its
\* request failed it changes no record; a follow-up call, successful or not,
\* leaves the whole registry unchanged.
C20_Step(t) ==
    LET tk == task'[t]
    IN  /\ Finishes(t, "status")
           => (/\ DOMAIN agents' = DOMAIN agents
               /\ OthersUnchanged(tk.args.agent_id)
               /\ ~tk.outcome.ok => UNCHANGED agents)
        /\ Finishes(t, "followup") => UNCHANGED agents
C20_IdsUnchanged == [][\A t \in Tasks : C20_Step(t)]_vars

\* a get-status for a2 has succeeded while the registry holds a1 only
C20_Witness ==
    /\ DOMAIN agents = {"a1"}
    /\ \E t \in Tasks :
          /\ task[t].pc = "done" /\ task[t].op = "status"
          /\ task[t].args.agent_id = "a2"
          /\ task[t].outcome.ok
          /\ task[t].result.success
          /\ task[t].result.status = "FINISHED"

\* the step ends a call of the agent handler op whose request succeeded / failed
Succeeds(t, op) ==
    Finishes(t, op) /\ task'[t].outcome # None /\ task'[t].outcome.ok
Fails(t, op) ==
    Finishes(t, op) /\ task'[t].outcome # None /\ ~task'[t].outcome.ok

\* C21: a stop call whose DELETE request succeeded sets the status of the
\* record of its id, when there is one, to "stopped" and inserts nothing when
\* there is none; a stop call whose request failed leaves the registry
\* unchanged and returns success = false; and a status becomes "stopped" in no
\* other step than the one that ends a successful stop for that id.
C21_Step(t) ==
    LET tk == task'[t]
        id == tk.args.agent_id
    IN  /\ Succeeds(t, "stop")
           => (/\ tk.result.success
               /\ DOMAIN agents' = DOMAIN agents
               /\ OthersUnchanged(id)
               /\ id \in DOMAIN agents
                     => (/\ agents'[id].status = "stopped"
                         /\ CreationFields(agents'[id]) = CreationFields(agents[id])))
        /\ Fails(t, "stop") => (UNCHANGED agents /\ ~tk.result.success)
C21_OnlyByStop ==
    \A a \in DOMAIN agents \cap DOMAIN agents' :
        (agents[a].status # "stopped" /\ agents'[a].status = "stopped")
        => \E t \in Tasks : Succeeds(t, "stop") /\ task'[t].args.agent_id = a
C21_StoppedAfterSuccess == [][C21_OnlyByStop /\ \A t \in Tasks : C21_Step(t)]_vars

\* one stop for a1 has failed with a 401 and left the record as it was created;
\* a second one has succeeded and the record is stopped
C21_Witness ==
    /\ "a1" \in DOMAIN agents
    /\ agents["a1"].status = "stopped"
    /\ agents["a1"].created_at = "c1"
    /\ \E t1, t2 \in Tasks :
          /\ task[t1].pc = "done" /\ task[t1].op = "stop"
          /\ task[t1].outcome = Failed(AuthenticationFailed)
          /\ ~task[t1].result.success
          /\ task[t2].pc = "done" /\ task[t2].op = "stop"
          /\ task[t2].outcome.ok
          /\ task[t2].result.status = "stopped"

\* C22: no step of any handler (create, get-status, follow-up, stop, list,
\* usage, list-models) nor clear_cache removes a record: the set of ids of the
\* registry only grows.
C22_RegistryOnlyGrows == [][DOMAIN agents \subseteq DOMAIN agents']_vars

\* a1 was created, a list has added a2, and a stop for a1 has succeeded: both
\* records are there
C22_Witness ==
    /\ DOMAIN agents = {"a1", "a2"}
    /\ agents["a1"].status = "stopped"
    /\ agents["a1"].prompt = "p1"
    /\ agents["a2"].status = "FINISHED"
    /\ \E t \in Tasks : task[t].pc = "done" /\ task[t].op = "stop"

\* the records of the response of the list call tk
Listed(tk) == Get(tk.outcome.body, "agents", <<>>)

\* the identifier of a listed record: the id field, which is the one the create
\* response carries, or the agent_id field
RecordId(rec) ==
    IF "id" \in DOMAIN rec THEN rec.id ELSE Get(rec, "agent_id", Null)

\* C23: after a successful list call every record of the response is in the
\* registry under its identifier, also when the record carries its identifier
\* in the id field, as the response to a create does.
C23_Step(t) ==
    Succeeds(t, "list") =>
        \A i \in 1..Len(Listed(task'[t])) :
            LET rec == Listed(task'[t])[i]
            IN  RecordId(rec) # Null => RecordId(rec) \in DOMAIN agents'
C23_ListedRecordsPresent == [][\A t \in Tasks : C23_Step(t)]_vars

\* what holds of the code: C23 for the records that carry an agent_id field
C23_ByAgentId ==
    [][\A t \in Tasks :
          Succeeds(t, "list") =>
              \A i \in 1..Len(Listed(task'[t])) :
                  LET rec == Listed(task'[t])[i]
                  IN  "agent_id" \in DOMAIN rec => rec.agent_id \in DOMAIN agents']_vars

\* the fields a listed record shares with a record of the registry
ListedFields == {"status", "repository_url", "prompt", "branch", "model", "created_at"}

\* the listed records of the step's list call that are already in the registry
Relisted(t) ==
    {i \in 1..Len(Listed(task'[t])) :
        Get(Listed(task'[t])[i], "agent_id", Null) \in DOMAIN agents}

\* C24: when a successful list call returns a record for an identifier that is
\* already in the registry, every field the returned record carries overwrites
\* the stored one, and every field it does not carry keeps its stored value.
C24_Step(t) ==
    Succeeds(t, "list") =>
        \A i \in Relisted(t) :
            LET rec == Listed(task'[t])[i]
                id == rec.agent_id
            IN  \A f \in ListedFields :
                    agents'[id][f] = IF f \in DOMAIN rec THEN rec[f] ELSE agents[id][f]
C24_ListedFieldsOverwrite == [][\A t \in Tasks : C24_Step(t)]_vars

\* what holds of the code: the status is overwritten when the returned record
\* carries one, and every other field keeps its stored value
C24_StatusOnly ==
    [][\A t \in Tasks :
          Succeeds(t, "list") =>
              \A i \in Relisted(t) :
                  LET rec == Listed(task'[t])[i]
                      id == rec.agent_id
                  IN  /\ agents'[id].status = Get(rec, "status", agents[id].status)
                      /\ CreationFields(agents'[id]) = CreationFields(agents[id])]_vars

\* C25: a successful list call returns only records whose status equals its
\* status_filter, when it has one, and whose repository URL equals its
\* repository_filter, when it has one.
C25_FiltersApplied ==
    \A t \in Tasks :
        LET tk == task[t]
        IN  (tk.pc = "done" /\ tk.op = "list" /\ tk.result.success)
            => \A i \in 1..Len(tk.result.agents) :
                   LET rec == tk.result.agents[i]
                   IN  /\ "status_filter" \in DOMAIN tk.args
                          => Get(rec, "status", Null) = tk.args.status_filter
                       /\ "repository_filter" \in DOMAIN tk.args
                          => Get(rec, "repository_url", Null) = tk.args.repository_filter

\* what holds of the code: the request of a list call is the same with the
\* filters and without them, and the call returns the response's records as
\* they came
C25_FiltersIgnored ==
    /\ \A a \in ListArgs :
          ListQuery(a) = ListQuery([k \in DOMAIN a \ {"status_filter",
                                                      "repository_filter"} |-> a[k]])
    /\ \A t \in Tasks :
          (task[t].pc = "done" /\ task[t].op = "list" /\ task[t].result.success)
          => task[t].result.agents = Listed(task[t])

\* C26: a usage call whose request failed returns, without raising, an
\* envelope with success = false whose usage.active_agents is the number of
\* records of the registry with the status "running", exactly, and whose
\* usage.total_agents_created is the number of records, both taken when the
\* failure is handled; the registry is unchanged.
C26_Step(t) ==
    LET tk == task'[t]
    IN  Fails(t, "usage") =>
        (/\ ~tk.result.success
         /\ tk.result.usage.active_agents =
               Cardinality({a \in DOMAIN agents : agents[a].status = "running"})
         /\ tk.result.usage.total_agents_created = Cardinality(DOMAIN agents)
         /\ UNCHANGED agents)
C26_LocalUsageOnFailure == [][\A t \in Tasks : C26_Step(t)]_vars

\* the registry holds agent-0 (CREATING) from a create answered without id,
\* and a1 (running) and a2 (FINISHED) from a list; the usage call has failed
\* and reports one active agent of three
C26_Witness ==
    /\ DOMAIN agents = {"agent-0", "a1", "a2"}
    /\ agents["agent-0"].status = "CREATING"
    /\ agents["a1"].status = "running"
    /\ agents["a2"].status = "FINISHED"
    /\ \E t \in Tasks :
          /\ task[t].pc = "done" /\ task[t].op = "usage"
          /\ task[t].outcome = Failed(AuthenticationFailed)
          /\ task[t].result.usage =
                [active_agents |-> 1, total_agents_created |-> 3]

\* the "required" lists of the tools' input schemas
inputSchemaRequired(op) ==
    IF op = "create" THEN {"repository_url", "prompt"}
    ELSE IF op \in {"status", "stop"} THEN {"agent_id"}
    ELSE IF op = "followup" THEN {"agent_id", "instruction"}
    ELSE IF op = "branches" THEN {"repository_url"}
    ELSE {}

\* a call starts in this step with a required argument missing: an agent
\* handler whose args[...] has no such key, or the branches tool without a
\* repository_url
CalledWithMissing(t) ==
    /\ task[t].pc = "idle"
    /\ task'[t].pc # "idle"
    /\ \/ /\ task'[t].op \in {"create", "status", "followup", "stop"}
          /\ inputSchemaRequired(task'[t].op) \ DOMAIN task'[t].args # {}
       \/ task'[t].op = "branches" /\ task'[t].url = <<>>

\* C27: when create, get-status, follow-up, stop or list-branches is called
\* with a required argument missing, the call ends in the same step without a
\* request having been issued, the registry and the caches are unchanged, and
\* the caller has a result that reports the error.
C27_Step(t) ==
    LET tk == task'[t]
    IN  CalledWithMissing(t) =>
        (/\ tk.pc = "done"
         /\ tk.hist = <<>>
         /\ tk.attempt = 0
         /\ UNCHANGED <<agents, cacheVars>>
         /\ "error" \in DOMAIN tk.result
         /\ tk.result.error.exc \in {"KeyError", "ValueError"}
         /\ "success" \in DOMAIN tk.result => ~tk.result.success)
C27_MissingArgumentNoRequest == [][\A t \in Tasks : C27_Step(t)]_vars

\* the registry holds a record, a follow-up without its instruction has ended
\* with the KeyError and no request
C27_Witness ==
    /\ agents # <<>>
    /\ task[1].pc = "done"
    /\ task[1].op = "followup"
    /\ task[1].args = [agent_id |-> "a1"]
    /\ task[1].hist = <<>>
    /\ task[1].result = AgentFailure(KeyError("instruction"))

\* the branches tool called without repository_url has ended with the
\* ValueError and no request, with an entry in the models cache
C27_WitnessBranches ==
    /\ _models_cache # None
    /\ task[1].pc = "done"
    /\ task[1].op = "branches"
    /\ task[1].url = <<>>
    /\ task[1].hist = <<>>
    /\ task[1].result.error = ValueError("repository_url is required")

\* the envelope of a returned tool call: a success field, and with success =
\* false an error and a message
Envelope(result) ==
    /\ "success" \in DOMAIN result
    /\ ~result.success => {"error", "message"} \subseteq DOMAIN result

\* C28: every tool call that has returned, whatever its name, arguments and
\* remote outcome, has returned an envelope with a success field, and with an
\* error and a message when success is false.
C28_EveryCallReturnsEnvelope ==
    \A t \in Tasks : task[t].pc = "done" => Envelope(task[t].result)

\* what holds of the code: the handlers return such an envelope, and what
\* handle_call_tool returns when it raised itself (unknown tool name, branches
\* without repository_url) has the fields error, tool and timestamp only
C28_HandlersOnly ==
    \A t \in Tasks :
       task[t].pc = "done" =>
          IF task[t].via = "tool_error"
          THEN /\ task[t].op \in {"unknown", "branches"}
               /\ DOMAIN task[t].result = {"error", "tool", "timestamp"}
          ELSE Envelope(task[t].result)

\* no call is left without a way to its end: a task that is not idle is done
\* or has a step to take
C28_NoCallStuck ==
    \A t \in Tasks :
       task[t].pc \notin {"idle", "done"} =>
          ENABLED (\E r \in Responses : Respond(t, r)) \/ ENABLED Wake(t)

\* the answer that ended the list-branches call of tk was the HTTP status
Answered(tk, status) ==
    /\ tk.hist # <<>>
    /\ Last(tk.hist).kind = "http"
    /\ Last(tk.hist).status = status

\* C29: a list-branches call whose request is answered with HTTP 404 returns
\* success = false with the branches main, master, develop, in this order, and
\* leaves the branches cache and its timestamps as they were, also when an
\* entry is stored for the repository.
C29_Step(t) ==
    LET tk == task'[t]
    IN  (Finishes(t, "branches") /\ Answered(tk, 404))
        => (/\ ~tk.result.success
            /\ tk.result.branches = <<"main", "master", "develop">>
            /\ tk.result.repository = tk.url
            /\ UNCHANGED cacheVars)
C29_NotFoundGivesCommonBranches == [][\A t \in Tasks : C29_Step(t)]_vars

\* a forced list-branches call for a repository with a stored entry has been
\* answered 404: it returned the three names, and the entry is still stored
C29_Witness ==
    \E t \in Tasks :
       /\ task[t].pc = "done"
       /\ task[t].op = "branches"
       /\ task[t].force
       /\ Answered(task[t], 404)
       /\ task[t].result.branches = <<"main", "master", "develop">>
       /\ CacheKey(_extract_repo_info(task[t].url)) \in DOMAIN _branches_cache

\* the call of tk returned the hardcoded fallback of list-branches
HardcodedFallback(tk) ==
    tk.pc = "done" /\ tk.op = "branches" /\ tk.via = "default"

HasFeatureBranch(result) ==
    \E i \in DOMAIN result.branches : result.branches[i] = "feature/new-feature"

\* C30: the hardcoded fallback of list-branches contains feature/new-feature
\* if and only if the request was answered with HTTP 401; after every other
\* failure (404, another status, a transport fault, an invalid URL) it is
\* exactly main, master, develop.
C30_FeatureBranchOnlyOn401 ==
    \A t \in Tasks :
       HardcodedFallback(task[t]) =>
          IF Answered(task[t], 401)
          THEN HasFeatureBranch(task[t].result)
          ELSE task[t].result.branches = <<"main", "master", "develop">>

\* what holds of the code: the fallback has feature/new-feature after every
\* HTTP status other than 200 and 404, that is after a 500 as after a 401, and
\* is main, master, develop after a 404, a fault or an invalid URL
C30_OnEveryOtherStatus ==
    \A t \in Tasks :
       HardcodedFallback(task[t]) =>
          IF /\ task[t].hist # <<>>
             /\ Last(task[t].hist).kind = "http"
             /\ Last(task[t].hist).status \notin {200, 404}
          THEN task[t].result.branches =
                  <<"main", "master", "develop", "feature/new-feature">>
          ELSE task[t].result.branches = <<"main", "master", "develop">>

\* the URL has the form http(s)://github.com/<owner>/<repo>[/...], owner and
\* repo not empty
IsGithubRepoUrl(u) ==
    \E scheme \in {HTTPS, HTTP} :
       LET p == scheme \o GITHUB \o SLASH
           rest == SubSeq(u, Len(p) + 1, Len(u))
       IN  /\ IsPrefix(p, u)
           /\ \E i \in 2..(Len(rest) - 1) :
                 /\ rest[i] = "/"
                 /\ \A j \in 1..(i - 1) : rest[j] # "/"
                 /\ rest[i + 1] # "/"

\* C31: _extract_repo_info returns an owner and a repo only for a URL of the
\* form http(s)://github.com/<owner>/<repo>[/...]: for every URL a
\* list-branches call was made with, a result means that the URL has this form.
C31_OnlyGithubRepoUrls ==
    \A t \in Tasks :
       (task[t].op = "branches" /\ _extract_repo_info(task[t].url).ok)
       => IsGithubRepoUrl(task[t].url)

\* what holds of the code: a URL of the form is accepted with its owner and
\* the rest, without trailing slashes, as repo; a URL without the text
\* github.com is rejected; and a URL with the text github.com that does not
\* begin with http(s)://github.com/ is accepted when it has a slash before its
\* trailing slashes
C31_WhatIsAccepted ==
    \A t \in Tasks :
       task[t].op = "branches" =>
          LET u == task[t].url
              info == _extract_repo_info(u)
          IN  /\ IsGithubRepoUrl(u) =>
                    /\ info.ok
                    /\ \E scheme \in {HTTPS, HTTP} :
                          IsPrefix(scheme \o GITHUB \o SLASH \o info.owner \o SLASH, u)
              /\ ~Contains(u, GITHUB) => ~info.ok
              /\ (Contains(u, GITHUB) /\ ~IsPrefix(HTTPS \o GITHUB \o SLASH, u)
                    /\ ~IsPrefix(HTTP \o GITHUB \o SLASH, u)
                    /\ Contains(RStrip(u, "/"), SLASH))
                 => info.ok

\* a request is in flight for git@github.com:a/w, taken as repository w of
\* the owner git@github.com:a
C31_Accepted ==
    /\ task[1].pc = "inflight"
    /\ task[1].op = "branches"
    /\ task[1].url = <<"g", "i", "t", "@">> \o GITHUB \o <<":", "a", "/", "w">>
    /\ _extract_repo_info(task[1].url).repo = <<"w">>

\* the slot of the cached handler op (and of the repository of url) holds no
\* entry that a call without force_refresh would serve
SlotExpired(op, url) ==
    ~(SlotStored(op, url) /\ _is_cache_valid(SlotTimestamp(op, url)))

\* t calls a cached handler, with the session open, while the refresh of
\* another caller is in flight for the same slot, which is expired or empty:
\* t issues its own request
C32_BothRefresh(t) ==
    LET tk == task'[t]
    IN  (/\ task[t].pc = "idle"
         /\ tk.pc # "idle"
         /\ tk.op \in {"models", "repositories", "branches"}
         /\ session' = "open"
         /\ \E u \in Tasks \ {t} :
               /\ task[u].pc = "inflight"
               /\ task[u].op = tk.op
               /\ task[u].url = tk.url
               /\ SlotExpired(task[u].op, task[u].url))
        => (tk.pc = "inflight" /\ tk.hist = <<>>)

\* every refresh that succeeds writes its result and the time of its
\* completion to the slot, whatever the other caller wrote before
C32_Step(t) ==
    LET tk == task'[t]
    IN  (/\ task[t].pc = "inflight"
         /\ tk.pc = "done"
         /\ tk.op \in {"models", "repositories", "branches"}
         /\ tk.via = "refreshed")
        => IF tk.op = "models"
           THEN _models_cache' = tk.result /\ _models_cache_timestamp' = now
           ELSE IF tk.op = "repositories"
           THEN /\ _repositories_cache' = tk.result
                /\ _repositories_cache_timestamp' = now
           ELSE LET k == SlotKey(task[t].url)
                IN  /\ k \in DOMAIN _branches_cache'
                    /\ _branches_cache'[k] = tk.result
                    /\ _branches_cache_timestamp'[k] = now

\* C32: two concurrent calls of the same cached handler for the same expired
\* or absent key both issue a refresh request and both write the cache when
\* they succeed, so that the payload and the timestamp of the slot are those
\* of the refresh that completed last.
C32_LastWriteWins ==
    [][\A t \in Tasks : C32_BothRefresh(t) /\ C32_Step(t)]_vars

\* both callers have refreshed the models slot at the same reading of the
\* clock, so the second call began before the first had written; the slot has
\* the payload of call 2, which is not the one call 1 returned
C32_Witness ==
    /\ now = 0
    /\ \A t \in TwoCallers :
          /\ task[t].pc = "done"
          /\ task[t].op = "models"
          /\ task[t].via = "refreshed"
    /\ task[1].result # task[2].result
    /\ _models_cache = task[2].result

\* the same for the branches of one repository, call 1 written last, after
\* the clock has moved: the timestamp is the time of the last completion
C32_WitnessBranches ==
    /\ now = 300
    /\ \A t \in TwoCallers :
          /\ task[t].pc = "done"
          /\ task[t].op = "branches"
          /\ task[t].via = "refreshed"
          /\ Len(task[t].hist) = 1
    /\ task[1].result # task[2].result
    /\ \A k \in DOMAIN _branches_cache :
          _branches_cache[k] = task[1].result /\ _branches_cache_timestamp[k] = 300

\* the request of a status call of t is in flight, or asleep between attempts
StatusInFlight(t) ==
    task[t].op = "status" /\ task[t].pc \in {"inflight", "sleep"}

\* C33: a get-status call changes the registry in no step other than the one
\* in which its request has returned: the step that sends the request and the
\* steps of its backoff leave the registry as it is, and a summary read while
\* the request is in flight returns the records as they were before the call.
C33_Step(t) ==
    LET tk == task'[t]
    IN  /\ (tk.op = "status" /\ tk.pc \in {"inflight", "sleep"} /\ tk # task[t])
           => UNCHANGED agents
        /\ (Finishes(t, "summary") /\ tk.via = "read"
              /\ \E u \in Tasks : StatusInFlight(u))
           => (/\ UNCHANGED agents
               /\ DOMAIN tk.result.agents = DOMAIN agents
               /\ \A a \in DOMAIN agents :
                     tk.result.agents[a].status = agents[a].status)
C33_RecordUnchangedInFlight == [][\A t \in Tasks : C33_Step(t)]_vars

\* the status request of call 1 for a1 is asleep after a 429, the registry
\* has a1 as RUNNING, and the summary call 2 has read says RUNNING
C33_Witness ==
    /\ task[1].op = "status"
    /\ task[1].pc = "sleep"
    /\ task[2].pc = "done"
    /\ task[2].op = "summary"
    /\ "a1" \in DOMAIN agents
    /\ agents["a1"].status = "RUNNING"
    /\ task[2].result = AgentsSummary
    /\ task[2].result.agents_by_status = [RUNNING |-> 1]

\* the status call has ended and the record is FINISHED, after the summary
\* that call 2 still holds said RUNNING
C33_WitnessAfter ==
    /\ task[1].op = "status"
    /\ task[1].pc = "done"
    /\ task[1].result.success
    /\ task[2].pc = "done"
    /\ task[2].op = "summary"
    /\ DOMAIN task[2].result.agents = {"a1"}
    /\ task[2].result.agents["a1"].status = "RUNNING"
    /\ agents["a1"].status = "FINISHED"

\* the models slot, the repositories slot
ModelsSlot == <<_models_cache, _models_cache_timestamp>>
RepositoriesSlot == <<_repositories_cache, _repositories_cache_timestamp>>

\* the branches entries and timestamps of the keys other than keys are as
\* they were, and no key other than keys is new
BranchesKeptBut(keys) ==
    /\ DOMAIN _branches_cache' \subseteq DOMAIN _branches_cache \cup keys
    /\ DOMAIN _branches_cache_timestamp'
          \subseteq DOMAIN _branches_cache_timestamp \cup keys
    /\ \A k \in DOMAIN _branches_cache \ keys :
          k \in DOMAIN _branches_cache' /\ _branches_cache'[k] = _branches_cache[k]
    /\ \A k \in DOMAIN _branches_cache_timestamp \ keys :
          /\ k \in DOMAIN _branches_cache_timestamp'
          /\ _branches_cache_timestamp'[k] = _branches_cache_timestamp[k]

\* "<owner>/<repo>" of a URL that _extract_repo_info accepts
OwnerRepo(url) ==
    LET info == _extract_repo_info(url)
    IN  IF info.ok THEN {info.owner \o SLASH \o info.repo} ELSE {}

\* C34: every step of a list-branches call, whether its refresh succeeds or
\* fails, leaves the branches entries and timestamps of every other key, the
\* models slot and the repositories slot as they were; every step of a
\* list-models or list-repositories call leaves every other slot as it was.
C34_Step(t) ==
    LET tk == task'[t]
    IN  (tk # task[t] /\ tk.op \in {"models", "repositories", "branches"})
        => IF tk.op = "branches"
           THEN /\ UNCHANGED <<ModelsSlot, RepositoriesSlot>>
                /\ BranchesKeptBut(OwnerRepo(tk.url))
           ELSE /\ BranchesKeptBut({})
                /\ IF tk.op = "models" THEN UNCHANGED RepositoriesSlot
                   ELSE UNCHANGED ModelsSlot
C34_SlotsIndependent == [][\A t \in Tasks : C34_Step(t)]_vars

\* the branches of a/g have just been refreshed, 300 seconds after those of
\* a/w, whose entry and timestamp are still there
C34_Witness ==
    /\ Cardinality(DOMAIN _branches_cache) = 2
    /\ \E k \in DOMAIN _branches_cache_timestamp : _branches_cache_timestamp[k] = 0
    /\ \E t \in Tasks :
          /\ task[t].pc = "done" /\ task[t].op = "branches"
          /\ task[t].via = "refreshed"
          /\ SlotTimestamp("branches", task[t].url) = 300

\* C35: in every reachable state the models payload and the models timestamp
\* are both set or both unset, likewise those of the repositories, and the
\* branches cache and the branches timestamps have the same keys.
C35_PayloadIffTimestamp ==
    /\ (_models_cache # None) <=> (_models_cache_timestamp # NoTime)
    /\ (_repositories_cache # None) <=> (_repositories_cache_timestamp # NoTime)
    /\ \A k \in DOMAIN _branches_cache \cup DOMAIN _branches_cache_timestamp :
          k \in DOMAIN _branches_cache \cap DOMAIN _branches_cache_timestamp

\* the second call has refreshed the models at 300; the models slot has its
\* payload and its timestamp, the repositories slot and the branches cache
\* have neither
C35_Witness ==
    /\ ~cleared
    /\ calls = MaxCalls
    /\ _models_cache # None /\ _models_cache_timestamp = 300
    /\ _repositories_cache = None /\ _repositories_cache_timestamp = NoTime
    /\ _branches_cache = <<>>
    /\ \E t \in Tasks : task[t].pc = "done" /\ task[t].via = "refreshed"

\* C36: in every reachable state every cached payload, of the models, of the
\* repositories and of every branches key, has success = true; no fallback
\* and no failure envelope is in a slot.
C36_OnlySuccessesCached ==
    /\ _models_cache # None => _models_cache.success
    /\ _repositories_cache # None => _repositories_cache.success
    /\ \A k \in DOMAIN _branches_cache : _branches_cache[k].success

\* a list-branches call answered 500 has returned its fallback, and the
\* branches cache, which holds an entry, does not hold that fallback
C36_Witness ==
    /\ _branches_cache # <<>>
    /\ \E t \in Tasks :
          /\ task[t].pc = "done" /\ task[t].op = "branches"
          /\ task[t].via = "default"
          /\ Answered(task[t], 500)
          /\ ~task[t].result.success
          /\ \A k \in DOMAIN _branches_cache :
                _branches_cache[k] # task[t].result

\* C37: _make_api_request does not sleep after its final attempt: a call that
\* is asleep has an attempt number left, and no call has slept more than
\* max_retries - 1 times, after a 429 as after a network fault.
C37_NoSleepAfterFinalAttempt ==
    \A t \in Tasks :
       UsesExecutor(task[t]) =>
          /\ task[t].pc = "sleep" => LoopContinues(task[t].attempt + 1)
          /\ Len(task[t].sleeps) <= max_retries - 1

\* what holds of the code: after a network fault the call sleeps only when an
\* attempt is left; after a 429 it sleeps also when none is, so that a call
\* has slept at most max_retries times, and max_retries times only when its
\* last attempt was answered 429
C37_OnlyAfterRateLimit ==
    \A t \in Tasks :
       LET tk == task[t]
       IN  UsesExecutor(tk) =>
              /\ Len(tk.sleeps) <= max_retries
              /\ (tk.hist # <<>> /\ ~(Is429(Last(tk.hist)) /\ Last(tk.hist).ctype = "json"))
                 => (/\ tk.pc = "sleep" => LoopContinues(tk.attempt + 1)
                     /\ Len(tk.sleeps) <= max_retries - 1)

\* C38: for every max_retries and every sequence of answers, 429, faults,
\* other statuses and successes in any mix, _make_api_request ends after at
\* most max_retries attempts, rate-limit and network retries counted
\* together; its sleeps are 2^0, 2^1, ... in this order, the sleep after
\* attempt k being 2^k; and with max_retries = 0 it fails without a request.
C38_BoundedAttempts ==
    \A t \in Tasks :
       (task[t].pc = "done" /\ task[t].op = "request") =>
          LET tk == task[t]
              retries == tk.args.max_retries
          IN  /\ Len(tk.hist) <= retries
              /\ Len(tk.sleeps) <= Len(tk.hist)
              /\ \A k \in 0..(Len(tk.sleeps) - 1) :
                    /\ tk.sleeps[k + 1] = 2 ^ k
                    /\ \/ Is429(tk.hist[k + 1])
                       \/ IsClientError(RequestFault(tk.hist[k + 1]))
              /\ tk.outcome.ok => IsDecoded200(Last(tk.hist))
              /\ retries = 0 => (tk.hist = <<>> /\ tk.outcome = Failed(FailedToComplete))

\* a server with max_retries = 0 has failed without a request
C38_Witness ==
    /\ task[1].pc = "done"
    /\ task[1].op = "request"
    /\ task[1].args.max_retries = 0
    /\ task[1].hist = <<>>
    /\ task[1].outcome = Failed(FailedToComplete)

\* with max_retries = 3, a 429, a connection error and a 200: three attempts,
\* the sleeps 1 and 2, the body returned
C38_WitnessMixed ==
    /\ task[1].pc = "done"
    /\ task[1].op = "request"
    /\ task[1].args.max_retries = 3
    /\ task[1].hist = <<Http(429, "json", <<>>), Fault("ClientConnectionError"),
                         Http(200, "json", <<"x">>)>>
    /\ task[1].sleeps = <<1, 2>>
    /\ task[1].outcome = Returned(<<"x">>)

\* the loop as a whole does what the handlers' calls do attempt by attempt:
\* a call that has ended has the sleeps and the outcome of the loop run with
\* max_retries on the answers the call got
C38_SameAsStepwise ==
    \A t \in Tasks :
       (task[t].pc = "done" /\ UsesExecutor(task[t]) /\ task[t].outcome # None) =>
          RequestLoop(max_retries, 0, task[t].hist, <<>>, <<>>)
             = [hist |-> task[t].hist, sleeps |-> task[t].sleeps,
                outcome |-> task[t].outcome]

\* t calls, on a server that has no session yet, a handler that needs a
\* request: an agent handler with its required arguments, list-models or
\* list-repositories, or list-branches with a URL of a repository
FirstCallNeedsRequest(t) ==
    LET tk == task'[t]
    IN  /\ task[t].pc = "idle"
        /\ tk.pc # "idle"
        /\ session = "None"
        /\ \/ /\ tk.op \in {"create", "status", "followup", "stop", "list", "usage"}
              /\ inputSchemaRequired(tk.op) \subseteq DOMAIN tk.args
           \/ tk.op \in {"models", "repositories"}
           \/ tk.op = "branches" /\ _extract_repo_info(tk.url).ok

\* C39: every handler that performs a network request ensures the session
\* first: called on a freshly constructed server, before initialize, any of
\* them, list-branches too, creates the session and sends its request.
C39_Step(t) ==
    FirstCallNeedsRequest(t) =>
       (/\ session' = "open"
        /\ task'[t].pc = "inflight"
        /\ task'[t].hist = <<>>)
C39_SessionEnsuredFirst == [][\A t \in Tasks : C39_Step(t)]_vars

\* what holds of the code: it is so for every handler that goes through
\* _make_api_request; list-branches uses the session as it finds it, and on
\* a server without a session ends at once with its fallback, the session
\* still missing and no request sent
C39_AllButBranches ==
    [][\A t \in Tasks :
          FirstCallNeedsRequest(t) =>
             IF task'[t].op = "branches"
             THEN /\ session' = "None"
                  /\ task'[t].pc = "done"
                  /\ task'[t].via = "default"
                  /\ task'[t].hist = <<SessionFault("None")>>
                  /\ task'[t].result.branches = CommonBranches
             ELSE /\ session' = "open"
                  /\ task'[t].pc = "inflight"
                  /\ task'[t].hist = <<>>]_vars

\* the step ends a status or list call of t whose request was issued when
\* the record of a1 was not yet stopped, and the record is stopped now: the
\* stop succeeded while the request was in flight
EndsAfterStop(t) ==
    /\ task[t].pc = "inflight"
    /\ task'[t].pc = "done"
    /\ task[t].op \in {"status", "list"}
    /\ "seen" \in DOMAIN task[t].args
    /\ task[t].args.seen # "stopped"
    /\ RegistryStatus("a1") = "stopped"

\* C40: once a stop call for an identifier has succeeded, a get-status or list
\* request that was issued before the stop and completes after it leaves the
\* status of the record "stopped".
C40_Step(t) ==
    EndsAfterStop(t) => agents'["a1"].status = "stopped"
C40_StoppedStaysStopped == [][\A t \in Tasks : C40_Step(t)]_vars

\* what holds of the code: such a late response that carries a status sets
\* the record to it, a status response under `status`, a list response in
\* its record with agent_id a1; without a status the record stays stopped
C40_LateResponseWins ==
    [][\A t \in Tasks :
          EndsAfterStop(t) =>
             LET tk == task'[t]
                 body == IF tk.outcome.ok THEN tk.outcome.body ELSE <<>>
                 listed == Get(body, "agents", <<>>)
                 mine == IF tk.op = "status" THEN {body}
                         ELSE {listed[i] : i \in
                                  {j \in DOMAIN listed :
                                      Get(listed[j], "agent_id", Null) = "a1"}}
                 carried == {b.status : b \in {c \in mine : "status" \in DOMAIN c}}
             IN  IF carried = {} THEN agents'["a1"].status = "stopped"
                 ELSE agents'["a1"].status \in carried]_vars

====
